---------------------------- MODULE Spec2Model ----------------------------
(***************************************************************************)
(* Invoice reconciliation core: ReconciliationService.reconcile and the    *)
(* business rules it uses (InvoiceNormalizer, AmountValidator,             *)
(* VendorMatcher, ConfidenceCalculator).                                   *)
(*                                                                         *)
(* Representation.                                                         *)
(*  - A Python str is a sequence of one-character strings; None in the     *)
(*    place of a str is the value None, which is no such sequence.         *)
(*  - A character up to U+00FF is written as itself (the grave accent      *)
(*    U+0060, which a string cannot hold, by its name) or by its name      *)
(*    U+XXXX; a character above U+00FF by its name, in upper-case          *)
(*    hexadecimal digits, four at least ("U+042F" is one character).       *)
(*  - An optional object (Optional[InvoiceMatch], Optional[Dict], a        *)
(*    reference that may be None) is <<>> for None and <<x>> for x.        *)
(*  - A Decimal amount is an integer number of thousandths of a currency   *)
(*    unit (50.011 is 50011); a quantized amount is a multiple of 10.      *)
(*  - A float similarity or score is an exact reduced fraction <<n, d>>.   *)
(*  - A float amount of the comparator's data is its number of             *)
(*    thousandths n, standing for the double nearest to n/1000; a float    *)
(*    the comparator computes from amounts is [neg, limbs]: its sign and   *)
(*    the digits in base 2^20, most significant first, of the whole        *)
(*    number of 2^-100 it is.                                              *)
(*  - An exception is the sequence of the names of its class and of that   *)
(*    class's bases, in method resolution order.                           *)
(*  - A Python object reference to an Invoice of pdf_invoices is its       *)
(*    position in that list; a reference to an EVD invoice is its position *)
(*    in evd_invoices; a reference to a set object is its heap address.    *)
(***************************************************************************)
EXTENDS Integers, Sequences, FiniteSets, TLC

None == <<"None">>

Nothing == <<>>

Some(x) == <<x>>

ValueOf(opt) == opt[1]

(***************************************************************************)
(* str helpers (Python built-ins used by rules.py)                         *)
(***************************************************************************)
LowerLetters ==
  <<"a","b","c","d","e","f","g","h","i","j","k","l","m",
    "n","o","p","q","r","s","t","u","v","w","x","y","z">>

UpperLetters ==
  <<"A","B","C","D","E","F","G","H","I","J","K","L","M",
    "N","O","P","Q","R","S","T","U","V","W","X","Y","Z">>

Digits == {"0","1","2","3","4","5","6","7","8","9"}

Range(f) == {f[x] : x \in DOMAIN f}

LowerSet == Range(LowerLetters)

UpperSet == Range(UpperLetters)

\* The characters U+0001 .. U+00FF, each at the position of its code point.
Latin1 ==
  <<
    "", "", "", "", "", "", "", "",
    "\t", "\n", "", "\f", "\r", "", "", "",
    "", "", "", "", "", "", "", "",
    "", "", "", "", "", "", "", " ",
    "!", "\"", "#", "$", "%", "&", "'", "(",
    ")", "*", "+", ",", "-", ".", "/", "0",
    "1", "2", "3", "4", "5", "6", "7", "8",
    "9", ":", ";", "<", "=", ">", "?", "@",
    "A", "B", "C", "D", "E", "F", "G", "H",
    "I", "J", "K", "L", "M", "N", "O", "P",
    "Q", "R", "S", "T", "U", "V", "W", "X",
    "Y", "Z", "[", "\\", "]", "^", "_", "U+0060",
    "a", "b", "c", "d", "e", "f", "g", "h",
    "i", "j", "k", "l", "m", "n", "o", "p",
    "q", "r", "s", "t", "u", "v", "w", "x",
    "y", "z", "{", "|", "}", "~", "", "",
    "", "", "", "", "", "", "", "",
    "", "", "", "", "", "", "", "",
    "", "", "", "", "", "", "", "",
    "", "", "", "", "", "", "", " ",
    "¡", "¢", "£", "¤", "¥", "¦", "§", "¨",
    "©", "ª", "«", "¬", "­", "®", "¯", "°",
    "±", "²", "³", "´", "µ", "¶", "·", "¸",
    "¹", "º", "»", "¼", "½", "¾", "¿", "À",
    "Á", "Â", "Ã", "Ä", "Å", "Æ", "Ç", "È",
    "É", "Ê", "Ë", "Ì", "Í", "Î", "Ï", "Ð",
    "Ñ", "Ò", "Ó", "Ô", "Õ", "Ö", "×", "Ø",
    "Ù", "Ú", "Û", "Ü", "Ý", "Þ", "ß", "à",
    "á", "â", "ã", "ä", "å", "æ", "ç", "è",
    "é", "ê", "ë", "ì", "í", "î", "ï", "ð",
    "ñ", "ò", "ó", "ô", "õ", "ö", "÷", "ø",
    "ù", "ú", "û", "ü", "ý", "þ", "ÿ"
  >>

\* The ASCII characters that are not whitespace and not control characters.
AsciiGraphic == {Latin1[n] : n \in 33..126}

HexDigits == <<"0","1","2","3","4","5","6","7","8","9","A","B","C","D","E","F">>

\* The number a string of hexadecimal digits denotes.
RECURSIVE HexNat(_)
HexNat(h) ==
  IF Len(h) = 0 THEN 0
  ELSE 16 * HexNat(SubSeq(h, 1, Len(h) - 1))
         + (CHOOSE k \in DOMAIN HexDigits : HexDigits[k] = SubSeq(h, Len(h), Len(h))) - 1

RECURSIVE HexText(_)
HexText(n) ==
  IF n < 16 THEN HexDigits[n + 1]
  ELSE HexText(n \div 16) \o HexDigits[(n % 16) + 1]

\* The name U+XXXX of code point n, at least four digits.
CodeName(n) ==
  "U+" \o (IF n < 16 THEN "000" ELSE IF n < 256 THEN "00" ELSE IF n < 4096 THEN "0" ELSE "")
       \o HexText(n)

\* ord(c): of a character written as itself or by its name.
CodePoint(c) ==
  IF Len(c) > 1
  THEN HexNat(SubSeq(c, 3, Len(c)))
  ELSE CHOOSE n \in DOMAIN Latin1 : Latin1[n] = c

\* chr(n), written the way the character like is written: an ASCII
\* character as itself, another one as itself up to U+00FF when like is,
\* and by its name otherwise.
CharOf(n, like) ==
  IF n < 128 THEN Latin1[n]
  ELSE IF n < 256 /\ Len(like) = 1 THEN Latin1[n]
  ELSE CodeName(n)

\* The numero sign (U+2116), one character; it is not a \w character.
NumeroSign == CodeName(8470)

\* The code points c of which str.isspace() is true: what str.strip(),
\* str.split() and the regex class \s take for whitespace.
SpaceCodes ==
  {9, 10, 11, 12, 13, 28, 29, 30, 31, 32, 133, 160,
   5760, 8192, 8193, 8194, 8195, 8196, 8197, 8198, 8199, 8200, 8201, 8202, 8232, 8233, 8239, 8287, 12288}

\* The code points the regex class [\w\d] matches on a str: the alphanumeric
\* characters and the underscore, as ranges <<first, last>>.
WordRanges ==
  <<
    <<48, 57>>, <<65, 90>>, <<95, 95>>, <<97, 122>>, <<170, 170>>,
    <<178, 179>>, <<181, 181>>, <<185, 186>>, <<188, 190>>, <<192, 214>>,
    <<216, 246>>, <<248, 705>>, <<710, 721>>, <<736, 740>>, <<748, 748>>,
    <<750, 750>>, <<880, 884>>, <<886, 887>>, <<890, 893>>, <<895, 895>>,
    <<902, 902>>, <<904, 906>>, <<908, 908>>, <<910, 929>>, <<931, 1013>>,
    <<1015, 1153>>, <<1162, 1327>>, <<1329, 1366>>, <<1369, 1369>>, <<1376, 1416>>,
    <<1488, 1514>>, <<1519, 1522>>, <<1568, 1610>>, <<1632, 1641>>, <<1646, 1647>>,
    <<1649, 1747>>, <<1749, 1749>>, <<1765, 1766>>, <<1774, 1788>>, <<1791, 1791>>,
    <<1808, 1808>>, <<1810, 1839>>, <<1869, 1957>>, <<1969, 1969>>, <<1984, 2026>>,
    <<2036, 2037>>, <<2042, 2042>>, <<2048, 2069>>, <<2074, 2074>>, <<2084, 2084>>,
    <<2088, 2088>>, <<2112, 2136>>, <<2144, 2154>>, <<2160, 2183>>, <<2185, 2190>>,
    <<2208, 2249>>, <<2308, 2361>>, <<2365, 2365>>, <<2384, 2384>>, <<2392, 2401>>,
    <<2406, 2415>>, <<2417, 2432>>, <<2437, 2444>>, <<2447, 2448>>, <<2451, 2472>>,
    <<2474, 2480>>, <<2482, 2482>>, <<2486, 2489>>, <<2493, 2493>>, <<2510, 2510>>,
    <<2524, 2525>>, <<2527, 2529>>, <<2534, 2545>>, <<2548, 2553>>, <<2556, 2556>>,
    <<2565, 2570>>, <<2575, 2576>>, <<2579, 2600>>, <<2602, 2608>>, <<2610, 2611>>,
    <<2613, 2614>>, <<2616, 2617>>, <<2649, 2652>>, <<2654, 2654>>, <<2662, 2671>>,
    <<2674, 2676>>, <<2693, 2701>>, <<2703, 2705>>, <<2707, 2728>>, <<2730, 2736>>,
    <<2738, 2739>>, <<2741, 2745>>, <<2749, 2749>>, <<2768, 2768>>, <<2784, 2785>>,
    <<2790, 2799>>, <<2809, 2809>>, <<2821, 2828>>, <<2831, 2832>>, <<2835, 2856>>,
    <<2858, 2864>>, <<2866, 2867>>, <<2869, 2873>>, <<2877, 2877>>, <<2908, 2909>>,
    <<2911, 2913>>, <<2918, 2927>>, <<2929, 2935>>, <<2947, 2947>>, <<2949, 2954>>,
    <<2958, 2960>>, <<2962, 2965>>, <<2969, 2970>>, <<2972, 2972>>, <<2974, 2975>>,
    <<2979, 2980>>, <<2984, 2986>>, <<2990, 3001>>, <<3024, 3024>>, <<3046, 3058>>,
    <<3077, 3084>>, <<3086, 3088>>, <<3090, 3112>>, <<3114, 3129>>, <<3133, 3133>>,
    <<3160, 3162>>, <<3165, 3165>>, <<3168, 3169>>, <<3174, 3183>>, <<3192, 3198>>,
    <<3200, 3200>>, <<3205, 3212>>, <<3214, 3216>>, <<3218, 3240>>, <<3242, 3251>>,
    <<3253, 3257>>, <<3261, 3261>>, <<3293, 3294>>, <<3296, 3297>>, <<3302, 3311>>,
    <<3313, 3314>>, <<3332, 3340>>, <<3342, 3344>>, <<3346, 3386>>, <<3389, 3389>>,
    <<3406, 3406>>, <<3412, 3414>>, <<3416, 3425>>, <<3430, 3448>>, <<3450, 3455>>,
    <<3461, 3478>>, <<3482, 3505>>, <<3507, 3515>>, <<3517, 3517>>, <<3520, 3526>>,
    <<3558, 3567>>, <<3585, 3632>>, <<3634, 3635>>, <<3648, 3654>>, <<3664, 3673>>,
    <<3713, 3714>>, <<3716, 3716>>, <<3718, 3722>>, <<3724, 3747>>, <<3749, 3749>>,
    <<3751, 3760>>, <<3762, 3763>>, <<3773, 3773>>, <<3776, 3780>>, <<3782, 3782>>,
    <<3792, 3801>>, <<3804, 3807>>, <<3840, 3840>>, <<3872, 3891>>, <<3904, 3911>>,
    <<3913, 3948>>, <<3976, 3980>>, <<4096, 4138>>, <<4159, 4169>>, <<4176, 4181>>,
    <<4186, 4189>>, <<4193, 4193>>, <<4197, 4198>>, <<4206, 4208>>, <<4213, 4225>>,
    <<4238, 4238>>, <<4240, 4249>>, <<4256, 4293>>, <<4295, 4295>>, <<4301, 4301>>,
    <<4304, 4346>>, <<4348, 4680>>, <<4682, 4685>>, <<4688, 4694>>, <<4696, 4696>>,
    <<4698, 4701>>, <<4704, 4744>>, <<4746, 4749>>, <<4752, 4784>>, <<4786, 4789>>,
    <<4792, 4798>>, <<4800, 4800>>, <<4802, 4805>>, <<4808, 4822>>, <<4824, 4880>>,
    <<4882, 4885>>, <<4888, 4954>>, <<4969, 4988>>, <<4992, 5007>>, <<5024, 5109>>,
    <<5112, 5117>>, <<5121, 5740>>, <<5743, 5759>>, <<5761, 5786>>, <<5792, 5866>>,
    <<5870, 5880>>, <<5888, 5905>>, <<5919, 5937>>, <<5952, 5969>>, <<5984, 5996>>,
    <<5998, 6000>>, <<6016, 6067>>, <<6103, 6103>>, <<6108, 6108>>, <<6112, 6121>>,
    <<6128, 6137>>, <<6160, 6169>>, <<6176, 6264>>, <<6272, 6276>>, <<6279, 6312>>,
    <<6314, 6314>>, <<6320, 6389>>, <<6400, 6430>>, <<6470, 6509>>, <<6512, 6516>>,
    <<6528, 6571>>, <<6576, 6601>>, <<6608, 6618>>, <<6656, 6678>>, <<6688, 6740>>,
    <<6784, 6793>>, <<6800, 6809>>, <<6823, 6823>>, <<6917, 6963>>, <<6981, 6988>>,
    <<6992, 7001>>, <<7043, 7072>>, <<7086, 7141>>, <<7168, 7203>>, <<7232, 7241>>,
    <<7245, 7293>>, <<7296, 7304>>, <<7312, 7354>>, <<7357, 7359>>, <<7401, 7404>>,
    <<7406, 7411>>, <<7413, 7414>>, <<7418, 7418>>, <<7424, 7615>>, <<7680, 7957>>,
    <<7960, 7965>>, <<7968, 8005>>, <<8008, 8013>>, <<8016, 8023>>, <<8025, 8025>>,
    <<8027, 8027>>, <<8029, 8029>>, <<8031, 8061>>, <<8064, 8116>>, <<8118, 8124>>,
    <<8126, 8126>>, <<8130, 8132>>, <<8134, 8140>>, <<8144, 8147>>, <<8150, 8155>>,
    <<8160, 8172>>, <<8178, 8180>>, <<8182, 8188>>, <<8304, 8305>>, <<8308, 8313>>,
    <<8319, 8329>>, <<8336, 8348>>, <<8450, 8450>>, <<8455, 8455>>, <<8458, 8467>>,
    <<8469, 8469>>, <<8473, 8477>>, <<8484, 8484>>, <<8486, 8486>>, <<8488, 8488>>,
    <<8490, 8493>>, <<8495, 8505>>, <<8508, 8511>>, <<8517, 8521>>, <<8526, 8526>>,
    <<8528, 8585>>, <<9312, 9371>>, <<9450, 9471>>, <<10102, 10131>>, <<11264, 11492>>,
    <<11499, 11502>>, <<11506, 11507>>, <<11517, 11517>>, <<11520, 11557>>, <<11559, 11559>>,
    <<11565, 11565>>, <<11568, 11623>>, <<11631, 11631>>, <<11648, 11670>>, <<11680, 11686>>,
    <<11688, 11694>>, <<11696, 11702>>, <<11704, 11710>>, <<11712, 11718>>, <<11720, 11726>>,
    <<11728, 11734>>, <<11736, 11742>>, <<11823, 11823>>, <<12293, 12295>>, <<12321, 12329>>,
    <<12337, 12341>>, <<12344, 12348>>, <<12353, 12438>>, <<12445, 12447>>, <<12449, 12538>>,
    <<12540, 12543>>, <<12549, 12591>>, <<12593, 12686>>, <<12690, 12693>>, <<12704, 12735>>,
    <<12784, 12799>>, <<12832, 12841>>, <<12872, 12879>>, <<12881, 12895>>, <<12928, 12937>>,
    <<12977, 12991>>, <<13312, 19903>>, <<19968, 42124>>, <<42192, 42237>>, <<42240, 42508>>,
    <<42512, 42539>>, <<42560, 42606>>, <<42623, 42653>>, <<42656, 42735>>, <<42775, 42783>>,
    <<42786, 42888>>, <<42891, 42954>>, <<42960, 42961>>, <<42963, 42963>>, <<42965, 42969>>,
    <<42994, 43009>>, <<43011, 43013>>, <<43015, 43018>>, <<43020, 43042>>, <<43056, 43061>>,
    <<43072, 43123>>, <<43138, 43187>>, <<43216, 43225>>, <<43250, 43255>>, <<43259, 43259>>,
    <<43261, 43262>>, <<43264, 43301>>, <<43312, 43334>>, <<43360, 43388>>, <<43396, 43442>>,
    <<43471, 43481>>, <<43488, 43492>>, <<43494, 43518>>, <<43520, 43560>>, <<43584, 43586>>,
    <<43588, 43595>>, <<43600, 43609>>, <<43616, 43638>>, <<43642, 43642>>, <<43646, 43695>>,
    <<43697, 43697>>, <<43701, 43702>>, <<43705, 43709>>, <<43712, 43712>>, <<43714, 43714>>,
    <<43739, 43741>>, <<43744, 43754>>, <<43762, 43764>>, <<43777, 43782>>, <<43785, 43790>>,
    <<43793, 43798>>, <<43808, 43814>>, <<43816, 43822>>, <<43824, 43866>>, <<43868, 43881>>,
    <<43888, 44002>>, <<44016, 44025>>, <<44032, 55203>>, <<55216, 55238>>, <<55243, 55291>>,
    <<63744, 64109>>, <<64112, 64217>>, <<64256, 64262>>, <<64275, 64279>>, <<64285, 64285>>,
    <<64287, 64296>>, <<64298, 64310>>, <<64312, 64316>>, <<64318, 64318>>, <<64320, 64321>>,
    <<64323, 64324>>, <<64326, 64433>>, <<64467, 64829>>, <<64848, 64911>>, <<64914, 64967>>,
    <<65008, 65019>>, <<65136, 65140>>, <<65142, 65276>>, <<65296, 65305>>, <<65313, 65338>>,
    <<65345, 65370>>, <<65382, 65470>>, <<65474, 65479>>, <<65482, 65487>>, <<65490, 65495>>,
    <<65498, 65500>>, <<65536, 65547>>, <<65549, 65574>>, <<65576, 65594>>, <<65596, 65597>>,
    <<65599, 65613>>, <<65616, 65629>>, <<65664, 65786>>, <<65799, 65843>>, <<65856, 65912>>,
    <<65930, 65931>>, <<66176, 66204>>, <<66208, 66256>>, <<66273, 66299>>, <<66304, 66339>>,
    <<66349, 66378>>, <<66384, 66421>>, <<66432, 66461>>, <<66464, 66499>>, <<66504, 66511>>,
    <<66513, 66517>>, <<66560, 66717>>, <<66720, 66729>>, <<66736, 66771>>, <<66776, 66811>>,
    <<66816, 66855>>, <<66864, 66915>>, <<66928, 66938>>, <<66940, 66954>>, <<66956, 66962>>,
    <<66964, 66965>>, <<66967, 66977>>, <<66979, 66993>>, <<66995, 67001>>, <<67003, 67004>>,
    <<67072, 67382>>, <<67392, 67413>>, <<67424, 67431>>, <<67456, 67461>>, <<67463, 67504>>,
    <<67506, 67514>>, <<67584, 67589>>, <<67592, 67592>>, <<67594, 67637>>, <<67639, 67640>>,
    <<67644, 67644>>, <<67647, 67669>>, <<67672, 67702>>, <<67705, 67742>>, <<67751, 67759>>,
    <<67808, 67826>>, <<67828, 67829>>, <<67835, 67867>>, <<67872, 67897>>, <<67968, 68023>>,
    <<68028, 68047>>, <<68050, 68096>>, <<68112, 68115>>, <<68117, 68119>>, <<68121, 68149>>,
    <<68160, 68168>>, <<68192, 68222>>, <<68224, 68255>>, <<68288, 68295>>, <<68297, 68324>>,
    <<68331, 68335>>, <<68352, 68405>>, <<68416, 68437>>, <<68440, 68466>>, <<68472, 68497>>,
    <<68521, 68527>>, <<68608, 68680>>, <<68736, 68786>>, <<68800, 68850>>, <<68858, 68899>>,
    <<68912, 68921>>, <<69216, 69246>>, <<69248, 69289>>, <<69296, 69297>>, <<69376, 69415>>,
    <<69424, 69445>>, <<69457, 69460>>, <<69488, 69505>>, <<69552, 69579>>, <<69600, 69622>>,
    <<69635, 69687>>, <<69714, 69743>>, <<69745, 69746>>, <<69749, 69749>>, <<69763, 69807>>,
    <<69840, 69864>>, <<69872, 69881>>, <<69891, 69926>>, <<69942, 69951>>, <<69956, 69956>>,
    <<69959, 69959>>, <<69968, 70002>>, <<70006, 70006>>, <<70019, 70066>>, <<70081, 70084>>,
    <<70096, 70106>>, <<70108, 70108>>, <<70113, 70132>>, <<70144, 70161>>, <<70163, 70187>>,
    <<70272, 70278>>, <<70280, 70280>>, <<70282, 70285>>, <<70287, 70301>>, <<70303, 70312>>,
    <<70320, 70366>>, <<70384, 70393>>, <<70405, 70412>>, <<70415, 70416>>, <<70419, 70440>>,
    <<70442, 70448>>, <<70450, 70451>>, <<70453, 70457>>, <<70461, 70461>>, <<70480, 70480>>,
    <<70493, 70497>>, <<70656, 70708>>, <<70727, 70730>>, <<70736, 70745>>, <<70751, 70753>>,
    <<70784, 70831>>, <<70852, 70853>>, <<70855, 70855>>, <<70864, 70873>>, <<71040, 71086>>,
    <<71128, 71131>>, <<71168, 71215>>, <<71236, 71236>>, <<71248, 71257>>, <<71296, 71338>>,
    <<71352, 71352>>, <<71360, 71369>>, <<71424, 71450>>, <<71472, 71483>>, <<71488, 71494>>,
    <<71680, 71723>>, <<71840, 71922>>, <<71935, 71942>>, <<71945, 71945>>, <<71948, 71955>>,
    <<71957, 71958>>, <<71960, 71983>>, <<71999, 71999>>, <<72001, 72001>>, <<72016, 72025>>,
    <<72096, 72103>>, <<72106, 72144>>, <<72161, 72161>>, <<72163, 72163>>, <<72192, 72192>>,
    <<72203, 72242>>, <<72250, 72250>>, <<72272, 72272>>, <<72284, 72329>>, <<72349, 72349>>,
    <<72368, 72440>>, <<72704, 72712>>, <<72714, 72750>>, <<72768, 72768>>, <<72784, 72812>>,
    <<72818, 72847>>, <<72960, 72966>>, <<72968, 72969>>, <<72971, 73008>>, <<73030, 73030>>,
    <<73040, 73049>>, <<73056, 73061>>, <<73063, 73064>>, <<73066, 73097>>, <<73112, 73112>>,
    <<73120, 73129>>, <<73440, 73458>>, <<73648, 73648>>, <<73664, 73684>>, <<73728, 74649>>,
    <<74752, 74862>>, <<74880, 75075>>, <<77712, 77808>>, <<77824, 78894>>, <<82944, 83526>>,
    <<92160, 92728>>, <<92736, 92766>>, <<92768, 92777>>, <<92784, 92862>>, <<92864, 92873>>,
    <<92880, 92909>>, <<92928, 92975>>, <<92992, 92995>>, <<93008, 93017>>, <<93019, 93025>>,
    <<93027, 93047>>, <<93053, 93071>>, <<93760, 93846>>, <<93952, 94026>>, <<94032, 94032>>,
    <<94099, 94111>>, <<94176, 94177>>, <<94179, 94179>>, <<94208, 100343>>, <<100352, 101589>>,
    <<101632, 101640>>, <<110576, 110579>>, <<110581, 110587>>, <<110589, 110590>>, <<110592, 110882>>,
    <<110928, 110930>>, <<110948, 110951>>, <<110960, 111355>>, <<113664, 113770>>, <<113776, 113788>>,
    <<113792, 113800>>, <<113808, 113817>>, <<119520, 119539>>, <<119648, 119672>>, <<119808, 119892>>,
    <<119894, 119964>>, <<119966, 119967>>, <<119970, 119970>>, <<119973, 119974>>, <<119977, 119980>>,
    <<119982, 119993>>, <<119995, 119995>>, <<119997, 120003>>, <<120005, 120069>>, <<120071, 120074>>,
    <<120077, 120084>>, <<120086, 120092>>, <<120094, 120121>>, <<120123, 120126>>, <<120128, 120132>>,
    <<120134, 120134>>, <<120138, 120144>>, <<120146, 120485>>, <<120488, 120512>>, <<120514, 120538>>,
    <<120540, 120570>>, <<120572, 120596>>, <<120598, 120628>>, <<120630, 120654>>, <<120656, 120686>>,
    <<120688, 120712>>, <<120714, 120744>>, <<120746, 120770>>, <<120772, 120779>>, <<120782, 120831>>,
    <<122624, 122654>>, <<123136, 123180>>, <<123191, 123197>>, <<123200, 123209>>, <<123214, 123214>>,
    <<123536, 123565>>, <<123584, 123627>>, <<123632, 123641>>, <<124896, 124902>>, <<124904, 124907>>,
    <<124909, 124910>>, <<124912, 124926>>, <<124928, 125124>>, <<125127, 125135>>, <<125184, 125251>>,
    <<125259, 125259>>, <<125264, 125273>>, <<126065, 126123>>, <<126125, 126127>>, <<126129, 126132>>,
    <<126209, 126253>>, <<126255, 126269>>, <<126464, 126467>>, <<126469, 126495>>, <<126497, 126498>>,
    <<126500, 126500>>, <<126503, 126503>>, <<126505, 126514>>, <<126516, 126519>>, <<126521, 126521>>,
    <<126523, 126523>>, <<126530, 126530>>, <<126535, 126535>>, <<126537, 126537>>, <<126539, 126539>>,
    <<126541, 126543>>, <<126545, 126546>>, <<126548, 126548>>, <<126551, 126551>>, <<126553, 126553>>,
    <<126555, 126555>>, <<126557, 126557>>, <<126559, 126559>>, <<126561, 126562>>, <<126564, 126564>>,
    <<126567, 126570>>, <<126572, 126578>>, <<126580, 126583>>, <<126585, 126588>>, <<126590, 126590>>,
    <<126592, 126601>>, <<126603, 126619>>, <<126625, 126627>>, <<126629, 126633>>, <<126635, 126651>>,
    <<127232, 127244>>, <<130032, 130041>>, <<131072, 173791>>, <<173824, 177976>>, <<177984, 178205>>,
    <<178208, 183969>>, <<183984, 191456>>, <<194560, 195101>>, <<196608, 201546>>
  >>

\* str.upper() where it gives one other character: <<first, last, step,
\* offset>> maps code point n = first + k * step up to last to n + offset.
UpperRuns ==
  <<
    <<97, 122, 1, -32>>, <<181, 181, 1, 743>>, <<224, 246, 1, -32>>, <<248, 254, 1, -32>>,
    <<255, 255, 1, 121>>, <<257, 303, 2, -1>>, <<305, 305, 1, -232>>, <<307, 311, 2, -1>>,
    <<314, 328, 2, -1>>, <<331, 375, 2, -1>>, <<378, 382, 2, -1>>, <<383, 383, 1, -300>>,
    <<384, 384, 1, 195>>, <<387, 389, 2, -1>>, <<392, 392, 1, -1>>, <<396, 396, 1, -1>>,
    <<402, 402, 1, -1>>, <<405, 405, 1, 97>>, <<409, 409, 1, -1>>, <<410, 410, 1, 163>>,
    <<414, 414, 1, 130>>, <<417, 421, 2, -1>>, <<424, 424, 1, -1>>, <<429, 429, 1, -1>>,
    <<432, 432, 1, -1>>, <<436, 438, 2, -1>>, <<441, 441, 1, -1>>, <<445, 445, 1, -1>>,
    <<447, 447, 1, 56>>, <<453, 453, 1, -1>>, <<454, 454, 1, -2>>, <<456, 456, 1, -1>>,
    <<457, 457, 1, -2>>, <<459, 459, 1, -1>>, <<460, 460, 1, -2>>, <<462, 476, 2, -1>>,
    <<477, 477, 1, -79>>, <<479, 495, 2, -1>>, <<498, 498, 1, -1>>, <<499, 499, 1, -2>>,
    <<501, 501, 1, -1>>, <<505, 543, 2, -1>>, <<547, 563, 2, -1>>, <<572, 572, 1, -1>>,
    <<575, 576, 1, 10815>>, <<578, 578, 1, -1>>, <<583, 591, 2, -1>>, <<592, 592, 1, 10783>>,
    <<593, 593, 1, 10780>>, <<594, 594, 1, 10782>>, <<595, 595, 1, -210>>, <<596, 596, 1, -206>>,
    <<598, 599, 1, -205>>, <<601, 601, 1, -202>>, <<603, 603, 1, -203>>, <<604, 604, 1, 42319>>,
    <<608, 608, 1, -205>>, <<609, 609, 1, 42315>>, <<611, 611, 1, -207>>, <<613, 613, 1, 42280>>,
    <<614, 614, 1, 42308>>, <<616, 616, 1, -209>>, <<617, 617, 1, -211>>, <<618, 618, 1, 42308>>,
    <<619, 619, 1, 10743>>, <<620, 620, 1, 42305>>, <<623, 623, 1, -211>>, <<625, 625, 1, 10749>>,
    <<626, 626, 1, -213>>, <<629, 629, 1, -214>>, <<637, 637, 1, 10727>>, <<640, 640, 1, -218>>,
    <<642, 642, 1, 42307>>, <<643, 643, 1, -218>>, <<647, 647, 1, 42282>>, <<648, 648, 1, -218>>,
    <<649, 649, 1, -69>>, <<650, 651, 1, -217>>, <<652, 652, 1, -71>>, <<658, 658, 1, -219>>,
    <<669, 669, 1, 42261>>, <<670, 670, 1, 42258>>, <<837, 837, 1, 84>>, <<881, 883, 2, -1>>,
    <<887, 887, 1, -1>>, <<891, 893, 1, 130>>, <<940, 940, 1, -38>>, <<941, 943, 1, -37>>,
    <<945, 961, 1, -32>>, <<962, 962, 1, -31>>, <<963, 971, 1, -32>>, <<972, 972, 1, -64>>,
    <<973, 974, 1, -63>>, <<976, 976, 1, -62>>, <<977, 977, 1, -57>>, <<981, 981, 1, -47>>,
    <<982, 982, 1, -54>>, <<983, 983, 1, -8>>, <<985, 1007, 2, -1>>, <<1008, 1008, 1, -86>>,
    <<1009, 1009, 1, -80>>, <<1010, 1010, 1, 7>>, <<1011, 1011, 1, -116>>, <<1013, 1013, 1, -96>>,
    <<1016, 1016, 1, -1>>, <<1019, 1019, 1, -1>>, <<1072, 1103, 1, -32>>, <<1104, 1119, 1, -80>>,
    <<1121, 1153, 2, -1>>, <<1163, 1215, 2, -1>>, <<1218, 1230, 2, -1>>, <<1231, 1231, 1, -15>>,
    <<1233, 1327, 2, -1>>, <<1377, 1414, 1, -48>>, <<4304, 4346, 1, 3008>>, <<4349, 4351, 1, 3008>>,
    <<5112, 5117, 1, -8>>, <<7296, 7296, 1, -6254>>, <<7297, 7297, 1, -6253>>, <<7298, 7298, 1, -6244>>,
    <<7299, 7300, 1, -6242>>, <<7301, 7301, 1, -6243>>, <<7302, 7302, 1, -6236>>, <<7303, 7303, 1, -6181>>,
    <<7304, 7304, 1, 35266>>, <<7545, 7545, 1, 35332>>, <<7549, 7549, 1, 3814>>, <<7566, 7566, 1, 35384>>,
    <<7681, 7829, 2, -1>>, <<7835, 7835, 1, -59>>, <<7841, 7935, 2, -1>>, <<7936, 7943, 1, 8>>,
    <<7952, 7957, 1, 8>>, <<7968, 7975, 1, 8>>, <<7984, 7991, 1, 8>>, <<8000, 8005, 1, 8>>,
    <<8017, 8023, 2, 8>>, <<8032, 8039, 1, 8>>, <<8048, 8049, 1, 74>>, <<8050, 8053, 1, 86>>,
    <<8054, 8055, 1, 100>>, <<8056, 8057, 1, 128>>, <<8058, 8059, 1, 112>>, <<8060, 8061, 1, 126>>,
    <<8112, 8113, 1, 8>>, <<8126, 8126, 1, -7205>>, <<8144, 8145, 1, 8>>, <<8160, 8161, 1, 8>>,
    <<8165, 8165, 1, 7>>, <<8526, 8526, 1, -28>>, <<8560, 8575, 1, -16>>, <<8580, 8580, 1, -1>>,
    <<9424, 9449, 1, -26>>, <<11312, 11359, 1, -48>>, <<11361, 11361, 1, -1>>, <<11365, 11365, 1, -10795>>,
    <<11366, 11366, 1, -10792>>, <<11368, 11372, 2, -1>>, <<11379, 11379, 1, -1>>, <<11382, 11382, 1, -1>>,
    <<11393, 11491, 2, -1>>, <<11500, 11502, 2, -1>>, <<11507, 11507, 1, -1>>, <<11520, 11557, 1, -7264>>,
    <<11559, 11559, 1, -7264>>, <<11565, 11565, 1, -7264>>, <<42561, 42605, 2, -1>>, <<42625, 42651, 2, -1>>,
    <<42787, 42799, 2, -1>>, <<42803, 42863, 2, -1>>, <<42874, 42876, 2, -1>>, <<42879, 42887, 2, -1>>,
    <<42892, 42892, 1, -1>>, <<42897, 42899, 2, -1>>, <<42900, 42900, 1, 48>>, <<42903, 42921, 2, -1>>,
    <<42933, 42947, 2, -1>>, <<42952, 42954, 2, -1>>, <<42961, 42961, 1, -1>>, <<42967, 42969, 2, -1>>,
    <<42998, 42998, 1, -1>>, <<43859, 43859, 1, -928>>, <<43888, 43967, 1, -38864>>, <<65345, 65370, 1, -32>>,
    <<66600, 66639, 1, -40>>, <<66776, 66811, 1, -40>>, <<66967, 67003, 2, -39>>, <<66968, 66977, 1, -39>>,
    <<66980, 66993, 1, -39>>, <<66996, 67001, 1, -39>>, <<67004, 67004, 1, -39>>, <<68800, 68850, 1, -64>>,
    <<71872, 71903, 1, -32>>, <<93792, 93823, 1, -32>>, <<125218, 125251, 1, -34>>
  >>

\* str.upper() where it gives several characters: <<code point, code points
\* of the result>>.
UpperSpecials ==
  <<
    <<223, <<83, 83>>>>, <<329, <<700, 78>>>>, <<496, <<74, 780>>>>,
    <<912, <<921, 776, 769>>>>, <<944, <<933, 776, 769>>>>, <<1415, <<1333, 1362>>>>,
    <<7830, <<72, 817>>>>, <<7831, <<84, 776>>>>, <<7832, <<87, 778>>>>,
    <<7833, <<89, 778>>>>, <<7834, <<65, 702>>>>, <<8016, <<933, 787>>>>,
    <<8018, <<933, 787, 768>>>>, <<8020, <<933, 787, 769>>>>, <<8022, <<933, 787, 834>>>>,
    <<8064, <<7944, 921>>>>, <<8065, <<7945, 921>>>>, <<8066, <<7946, 921>>>>,
    <<8067, <<7947, 921>>>>, <<8068, <<7948, 921>>>>, <<8069, <<7949, 921>>>>,
    <<8070, <<7950, 921>>>>, <<8071, <<7951, 921>>>>, <<8072, <<7944, 921>>>>,
    <<8073, <<7945, 921>>>>, <<8074, <<7946, 921>>>>, <<8075, <<7947, 921>>>>,
    <<8076, <<7948, 921>>>>, <<8077, <<7949, 921>>>>, <<8078, <<7950, 921>>>>,
    <<8079, <<7951, 921>>>>, <<8080, <<7976, 921>>>>, <<8081, <<7977, 921>>>>,
    <<8082, <<7978, 921>>>>, <<8083, <<7979, 921>>>>, <<8084, <<7980, 921>>>>,
    <<8085, <<7981, 921>>>>, <<8086, <<7982, 921>>>>, <<8087, <<7983, 921>>>>,
    <<8088, <<7976, 921>>>>, <<8089, <<7977, 921>>>>, <<8090, <<7978, 921>>>>,
    <<8091, <<7979, 921>>>>, <<8092, <<7980, 921>>>>, <<8093, <<7981, 921>>>>,
    <<8094, <<7982, 921>>>>, <<8095, <<7983, 921>>>>, <<8096, <<8040, 921>>>>,
    <<8097, <<8041, 921>>>>, <<8098, <<8042, 921>>>>, <<8099, <<8043, 921>>>>,
    <<8100, <<8044, 921>>>>, <<8101, <<8045, 921>>>>, <<8102, <<8046, 921>>>>,
    <<8103, <<8047, 921>>>>, <<8104, <<8040, 921>>>>, <<8105, <<8041, 921>>>>,
    <<8106, <<8042, 921>>>>, <<8107, <<8043, 921>>>>, <<8108, <<8044, 921>>>>,
    <<8109, <<8045, 921>>>>, <<8110, <<8046, 921>>>>, <<8111, <<8047, 921>>>>,
    <<8114, <<8122, 921>>>>, <<8115, <<913, 921>>>>, <<8116, <<902, 921>>>>,
    <<8118, <<913, 834>>>>, <<8119, <<913, 834, 921>>>>, <<8124, <<913, 921>>>>,
    <<8130, <<8138, 921>>>>, <<8131, <<919, 921>>>>, <<8132, <<905, 921>>>>,
    <<8134, <<919, 834>>>>, <<8135, <<919, 834, 921>>>>, <<8140, <<919, 921>>>>,
    <<8146, <<921, 776, 768>>>>, <<8147, <<921, 776, 769>>>>, <<8150, <<921, 834>>>>,
    <<8151, <<921, 776, 834>>>>, <<8162, <<933, 776, 768>>>>, <<8163, <<933, 776, 769>>>>,
    <<8164, <<929, 787>>>>, <<8166, <<933, 834>>>>, <<8167, <<933, 776, 834>>>>,
    <<8178, <<8186, 921>>>>, <<8179, <<937, 921>>>>, <<8180, <<911, 921>>>>,
    <<8182, <<937, 834>>>>, <<8183, <<937, 834, 921>>>>, <<8188, <<937, 921>>>>,
    <<64256, <<70, 70>>>>, <<64257, <<70, 73>>>>, <<64258, <<70, 76>>>>,
    <<64259, <<70, 70, 73>>>>, <<64260, <<70, 70, 76>>>>, <<64261, <<83, 84>>>>,
    <<64262, <<83, 84>>>>, <<64275, <<1348, 1350>>>>, <<64276, <<1348, 1333>>>>,
    <<64277, <<1348, 1339>>>>, <<64278, <<1358, 1350>>>>, <<64279, <<1348, 1341>>>>
  >>

\* chr(n).upper() as code points, for a code point n outside a-z.
UpperOfCode(n) ==
  IF \E k \in DOMAIN UpperSpecials : UpperSpecials[k][1] = n
  THEN UpperSpecials[CHOOSE k \in DOMAIN UpperSpecials : UpperSpecials[k][1] = n][2]
  ELSE IF \E k \in DOMAIN UpperRuns :
            /\ UpperRuns[k][1] <= n
            /\ n <= UpperRuns[k][2]
            /\ (n - UpperRuns[k][1]) % UpperRuns[k][3] = 0
  THEN << n + UpperRuns[CHOOSE k \in DOMAIN UpperRuns :
                          /\ UpperRuns[k][1] <= n
                          /\ n <= UpperRuns[k][2]
                          /\ (n - UpperRuns[k][1]) % UpperRuns[k][3] = 0][4] >>
  ELSE << n >>

\* The characters of the code points codes, written like the character like.
\* str.upper() on one character: the str it gives, of one character or of
\* several (the sharp s gives SS).
UpperChar(c) ==
  IF c \in LowerSet
  THEN << UpperLetters[CHOOSE k \in DOMAIN LowerLetters : LowerLetters[k] = c] >>
  ELSE IF c \in AsciiGraphic \/ c = " "
  THEN << c >>
  ELSE IF UpperOfCode(CodePoint(c)) = << CodePoint(c) >>
  THEN << c >>
  ELSE [k \in DOMAIN UpperOfCode(CodePoint(c)) |->
          CharOf(UpperOfCode(CodePoint(c))[k], c)]

RECURSIVE upper(_)
upper(s) == IF s = <<>> THEN <<>> ELSE UpperChar(Head(s)) \o upper(Tail(s))

\* Whitespace as seen by str.strip(), str.split() and the regex class \s.
IsSpace(c) ==
  IF c \in {" ", "\t", "\n", "\r", "\f"} THEN TRUE
  ELSE IF c \in AsciiGraphic THEN FALSE
  ELSE CodePoint(c) \in SpaceCodes

\* The regex class \w (with \d) on a str: letters, digits and the underscore.
IsWordChar(c) ==
  IF c \in UpperSet \/ c \in LowerSet \/ c \in Digits \/ c = "_" THEN TRUE
  ELSE IF c \in AsciiGraphic \/ c = " " THEN FALSE
  ELSE \E k \in DOMAIN WordRanges :
         WordRanges[k][1] <= CodePoint(c) /\ CodePoint(c) <= WordRanges[k][2]

RECURSIVE lstrip(_)
lstrip(s) ==
  IF s # <<>> /\ IsSpace(Head(s)) THEN lstrip(Tail(s)) ELSE s

RECURSIVE rstrip(_)
rstrip(s) ==
  IF s # <<>> /\ IsSpace(s[Len(s)]) THEN rstrip(SubSeq(s, 1, Len(s) - 1)) ELSE s

strip(s) == rstrip(lstrip(s))

StartsWith(s, p) == Len(p) <= Len(s) /\ SubSeq(s, 1, Len(p)) = p

Drop(s, n) == SubSeq(s, n + 1, Len(s))

\* The operator `in` on two str values.
IsSubstring(p, s) ==
  \E k \in 0..(Len(s) - Len(p)) : SubSeq(s, k + 1, k + Len(p)) = p

\* str.split() with no argument: the set of the maximal runs of
\* non-whitespace characters (set(v.split()) in the source).
WordSet(s) ==
  {SubSeq(s, a, b) : <<a, b>> \in
     {<<x, y>> \in (1..Len(s)) \X (1..Len(s)) :
        /\ x <= y
        /\ \A k \in x..y : ~IsSpace(s[k])
        /\ (x = 1 \/ IsSpace(s[x - 1]))
        /\ (y = Len(s) \/ IsSpace(s[y + 1]))}}

(***************************************************************************)
(* InvoiceNormalizer                                                       *)
(***************************************************************************)
\* The alternation of the prefix regex, in the order the regex tries it.
\* "NO" stands for NO\.? (the optional dot is consumed by StripPrefix).
PrefixTokens ==
  << <<"I","N","V">>,
     <<"I","N","V","O","I","C","E">>,
     <<"D","O","C">>,
     <<"F","A","K","T","U","R","A">>,
     <<NumeroSign>>,
     <<"N","O">>,
     <<"#">> >>

\* One optional character of the class cls at the head of s.
SkipOne(s, cls) == IF s # <<>> /\ Head(s) \in cls THEN Tail(s) ELSE s

\* What the prefix regex leaves of s once the alternative tok has matched
\* at its start: \s*[-:]?\s* is consumed after it.
StripToken(s, tok) ==
  lstrip(SkipOne(lstrip(IF tok = <<"N","O">>
                        THEN SkipOne(Drop(s, Len(tok)), {"."})
                        ELSE Drop(s, Len(tok))),
                 {"-", ":"}))

\* The first alternative of the prefix regex that matches at the start of s.
FirstToken(s) ==
  PrefixTokens[CHOOSE x \in DOMAIN PrefixTokens :
                 /\ StartsWith(s, PrefixTokens[x])
                 /\ \A y \in 1..(x - 1) : ~StartsWith(s, PrefixTokens[y])]

\* re.sub(r'^(INV|INVOICE|DOC|FAKTURA|<numero>|NO\.?|#)\s*[-:]?\s*', '', s):
\* the first alternative that matches at the start is taken (every later
\* part of the pattern can match the empty string, so there is no
\* backtracking into the alternation).
StripPrefix(s) ==
  IF \E k \in DOMAIN PrefixTokens : StartsWith(s, PrefixTokens[k])
  THEN StripToken(s, FirstToken(s))
  ELSE s

normalize_invoice_number(invoice_num) ==
  IF invoice_num = None \/ invoice_num = <<>>
  THEN <<>>
  ELSE SelectSeq(StripPrefix(strip(upper(invoice_num))), IsWordChar)

normalize_vendor(vendor) ==
  IF vendor = None \/ vendor = <<>> THEN <<>> ELSE strip(upper(vendor))

(***************************************************************************)
(* AmountValidator                                                         *)
(***************************************************************************)
Abs(x) == IF x < 0 THEN -x ELSE x

\* The precision of the default decimal context.
DecimalPrec == 28

RECURSIVE Pow10(_)
Pow10(k) == IF k = 0 THEN 1 ELSE 10 * Pow10(k - 1)

\* The number of decimal digits of the natural number n.
RECURSIVE DigitCount(_)
DigitCount(n) == IF n < 10 THEN 1 ELSE 1 + DigitCount(n \div 10)

\* n rounded to a multiple of p, ties to the even multiple (ROUND_HALF_EVEN,
\* the rounding of the default decimal context).
RoundHalfEven(n, p) ==
  IF 2 * (n % p) > p \/ (2 * (n % p) = p /\ (n \div p) % 2 = 1)
  THEN (n \div p + 1) * p
  ELSE (n \div p) * p

\* The result of an arithmetic operation of the default decimal context
\* whose exact value is n >= 0: n rounded to DecimalPrec significant digits.
ContextRound(n) ==
  IF DigitCount(n) <= DecimalPrec THEN n
  ELSE RoundHalfEven(n, Pow10(DigitCount(n) - DecimalPrec))

\* Variant: the value is compared as given, without quantizing it.
normalize_amount_unquantized(value) == value

\* Decimal(str(value)).quantize(Decimal('0.01'), rounding=ROUND_HALF_UP):
\* thousandths rounded to a whole number of hundredths, ties away from zero.
normalize_amount(value) ==
  LET q == ((Abs(value) + 5) \div 10) * 10
  IN IF value < 0 THEN -q ELSE q

\* abs(a - b) <= self.tolerance: the subtraction rounds to the precision of
\* the context.
\* Variant: the tolerance bound is exclusive.
amounts_match_strict(tolerance, a, b) == ContextRound(Abs(a - b)) < tolerance

amounts_match(tolerance, a, b) == ContextRound(Abs(a - b)) <= tolerance

\* Variant: the first scenario only, no sign convention.
ConsistentScenariosExact(tolerance, evd, pdf) ==
  IF amounts_match(tolerance, evd, pdf) THEN TRUE ELSE FALSE

\* The three scenarios of amounts_consistent, on the normalized amounts.
ConsistentScenarios(tolerance, evd, pdf) ==
  IF amounts_match(tolerance, evd, pdf) THEN TRUE
  ELSE IF amounts_match(tolerance, evd, -pdf) THEN TRUE
  ELSE IF amounts_match(tolerance, Abs(evd), Abs(pdf)) THEN TRUE
  ELSE FALSE

amounts_consistent(tolerance, evd_amt, pdf_amt) ==
  ConsistentScenarios(tolerance, normalize_amount(evd_amt), normalize_amount(pdf_amt))

\* abs(evd - pdf): the subtraction rounds to the precision of the context.
\* Variant: the difference of the magnitudes is returned.
calculate_difference_sign_adjusted(tolerance, evd_amt, pdf_amt) ==
  IF amounts_consistent(tolerance, evd_amt, pdf_amt) THEN 0
  ELSE ContextRound(Abs(Abs(normalize_amount(evd_amt)) - Abs(normalize_amount(pdf_amt))))

calculate_difference(tolerance, evd_amt, pdf_amt) ==
  IF amounts_consistent(tolerance, evd_amt, pdf_amt) THEN 0
  ELSE ContextRound(Abs(normalize_amount(evd_amt) - normalize_amount(pdf_amt)))

(***************************************************************************)
(* normalize_amount on any value: Decimal(str(value)), quantize, except    *)
(***************************************************************************)
\* What a call does: it returns a value or an exception leaves it.  An
\* exception is given by the names of its class and of the base classes of
\* that class, in method resolution order, the class itself first.
Returned(v) == [kind |-> "returned", value |-> v, exc |-> <<>>]

Raised(e) == [kind |-> "raised", value |-> Nothing, exc |-> e]

\* decimal.InvalidOperation.__mro__, up to BaseException.
InvalidOperation ==
  <<"InvalidOperation", "DecimalException", "ArithmeticError", "Exception",
    "BaseException">>

\* Decimal values: a finite number of thousandths, or a quiet NaN.
Finite(mills) == [kind |-> "finite", mills |-> mills]

QuietNaN == [kind |-> "NaN", mills |-> 0]

DigitSeq == <<"0","1","2","3","4","5","6","7","8","9">>

DigitValue(c) == (CHOOSE d \in DOMAIN DigitSeq : DigitSeq[d] = c) - 1

RECURSIVE NatOf(_)
NatOf(s) ==
  IF s = <<>> THEN 0
  ELSE 10 * NatOf(SubSeq(s, 1, Len(s) - 1)) + DigitValue(s[Len(s)])

AllDigits(s) == \A k \in DOMAIN s : s[k] \in Digits

RECURSIVE StripZeros(_)
StripZeros(s) == IF s # <<>> /\ Head(s) = "0" THEN StripZeros(Tail(s)) ELSE s

\* The position of the first c in s, 0 when there is none.
IndexOf(s, c) ==
  IF \E k \in DOMAIN s : s[k] = c
  THEN CHOOSE k \in DOMAIN s : s[k] = c /\ \A j \in 1..(k - 1) : s[j] # c
  ELSE 0

NotDot(c) == c # "."

NotUnderscore(c) == c # "_"

\* The mantissa of a numeric string: digits with at most one point, at
\* least one digit.
MantissaOk(m) ==
  /\ AllDigits(SelectSeq(m, NotDot))
  /\ Len(SelectSeq(m, NotDot)) >= 1
  /\ Len(m) - Len(SelectSeq(m, NotDot)) <= 1

FractionLen(m) == IF IndexOf(m, ".") = 0 THEN 0 ELSE Len(m) - IndexOf(m, ".")

\* The number the digit string s denotes is n or more (n below 10^9).
AtLeast(s, n) == Len(StripZeros(s)) > 9 \/ NatOf(StripZeros(s)) >= n

\* The number that is short of 99...9 (as many nines as s has digits) by
\* the number s denotes is n or less (n below 10^9).
ComplementAtMost(s, n) ==
  /\ Len(StripZeros([k \in DOMAIN s |-> DigitSeq[10 - DigitValue(s[k])]])) <= 9
  /\ NatOf(StripZeros([k \in DOMAIN s |-> DigitSeq[10 - DigitValue(s[k])]])) <= n

\* The constructor reads a text exactly, in the widest context: its largest
\* exponent is Emax = 10^18 - 1 and its smallest is Etiny = -(2 * 10^18 - 3).
\* With v the digits of the written exponent (no sign, no leading zero),
\* shift what the position of the number takes from it, the exponent is
\* beyond them when -v - shift < Etiny (negative) or v - shift > Emax.
ExponentBeyond(negative, v, shift) ==
  IF Len(v) >= 20 THEN TRUE
  ELSE IF negative
  THEN Len(v) = 19 /\ (Head(v) # "1" \/ ComplementAtMost(Tail(v), shift + 1))
  ELSE IF shift >= 0
  THEN Len(v) = 19 /\ (Head(v) # "1" \/ AtLeast(Tail(v), shift))
  ELSE Len(v) = 19 \/ (Len(v) = 18 /\ ComplementAtMost(v, -shift - 1))

\* The exponent of a numeric string with mantissa m: an optional sign and
\* at least one digit, and a number the constructor can hold. The exponent
\* of the value is the written one less the digits of the fraction; it may
\* not be under Etiny, and neither it (of a zero) nor that of the leading
\* digit (of another number) may be over Emax.
ExponentOk(m, x) ==
  /\ SkipOne(x, {"+", "-"}) # <<>>
  /\ AllDigits(SkipOne(x, {"+", "-"}))
  /\ ~ExponentBeyond(Head(x) = "-", StripZeros(SkipOne(x, {"+", "-"})),
                     IF Head(x) = "-" \/ StripZeros(SelectSeq(m, NotDot)) = <<>>
                     THEN FractionLen(m)
                     ELSE FractionLen(m) + 1 - Len(StripZeros(SelectSeq(m, NotDot))))

\* The written exponent. One of ten digits or more is given by 10^9 or
\* -10^9: quantize does the same with every exponent that far out (a zero
\* stays zero, a number so small becomes zero, one so large is refused).
ExponentOf(x) ==
  IF Len(StripZeros(SkipOne(x, {"+", "-"}))) > 9
  THEN (IF Head(x) = "-" THEN -Pow10(9) ELSE Pow10(9))
  ELSE IF x # <<>> /\ Head(x) = "-"
  THEN -NatOf(Tail(x))
  ELSE NatOf(SkipOne(x, {"+"}))

\* Rounding half up to two decimals carries into one more digit: digits
\* are dropped, the first of them is 5 or more and every digit kept is 9.
RoundsToCarry(d, exp) ==
  /\ exp + 2 < 0
  /\ Len(d) + exp + 2 >= 1
  /\ d[Len(d) + exp + 3] \in {"5", "6", "7", "8", "9"}
  /\ \A k \in 1..(Len(d) + exp + 2) : d[k] = "9"

\* Decimal.quantize(Decimal('0.01'), rounding=ROUND_HALF_UP) of the finite
\* value (-1)^neg * digits * 10^exp: InvalidOperation when the result needs
\* more than DecimalPrec digits, before the rounding or after it.
QuantizeFinite(neg, digits, exp) ==
  IF /\ StripZeros(digits) # <<>>
     /\ Len(StripZeros(digits)) + exp + 2
          + (IF RoundsToCarry(StripZeros(digits), exp) THEN 1 ELSE 0) > DecimalPrec
  THEN Raised(InvalidOperation)
  ELSE Returned(Finite(
         (IF neg THEN -10 ELSE 10) *
         (IF StripZeros(digits) = <<>>
          THEN 0
          ELSE IF exp + 2 >= 0
          THEN NatOf(digits) * Pow10(exp + 2)
          ELSE IF -(exp + 2) > Len(digits)
          THEN 0
          ELSE (2 * NatOf(digits) + Pow10(-(exp + 2))) \div (2 * Pow10(-(exp + 2))))))

\* A numeric string with mantissa m and exponent x (has_exp: an E is there).
QuantizeNumber(neg, m, has_exp, x) ==
  IF MantissaOk(m) /\ (has_exp => ExponentOk(m, x))
  THEN QuantizeFinite(neg, SelectSeq(m, NotDot),
                      (IF has_exp THEN ExponentOf(x) ELSE 0) - FractionLen(m))
  ELSE Raised(InvalidOperation)

\* The text after the sign: Inf and Infinity cannot be quantized to a
\* finite exponent, a quiet NaN stays a NaN, a signalling NaN signals, and
\* anything that is no number is a conversion syntax error.
QuantizeBody(neg, b) ==
  IF b \in {<<"I","N","F">>, <<"I","N","F","I","N","I","T","Y">>}
  THEN Raised(InvalidOperation)
  ELSE IF StartsWith(b, <<"N","A","N">>) /\ AllDigits(Drop(b, 3))
  THEN Returned(QuietNaN)
  ELSE IF StartsWith(b, <<"S","N","A","N">>) /\ AllDigits(Drop(b, 4))
  THEN Raised(InvalidOperation)
  ELSE IF IndexOf(b, "E") = 0
  THEN QuantizeNumber(neg, b, FALSE, <<>>)
  ELSE QuantizeNumber(neg, SubSeq(b, 1, IndexOf(b, "E") - 1), TRUE,
                      Drop(b, IndexOf(b, "E")))

QuantizeSigned(t) ==
  IF t # <<>> /\ Head(t) \in {"+", "-"}
  THEN QuantizeBody(Head(t) = "-", Tail(t))
  ELSE QuantizeBody(FALSE, t)

\* The code points of the digits zero of the decimal digit characters: the
\* nine that follow each are its digits one to nine.
DecimalZeros ==
  <<
     48, 1632, 1776, 1984, 2406, 2534, 2662, 2790,
     2918, 3046, 3174, 3302, 3430, 3558, 3664, 3792,
     3872, 4160, 4240, 6112, 6160, 6470, 6608, 6784,
     6800, 6992, 7088, 7232, 7248, 42528, 43216, 43264,
     43472, 43504, 43600, 44016, 65296, 66720, 68912, 69734,
     69872, 69942, 70096, 70384, 70736, 70864, 71248, 71360,
     71472, 71904, 72016, 72784, 73040, 73120, 92768, 92864,
     93008, 120782, 120792, 120802, 120812, 120822, 123200, 123632,
     125264, 130032 >>

\* What the constructor reads for the character c: an ASCII character is
\* itself, another decimal digit is the ASCII digit of its value, and any
\* other character is no part of a number.
DecimalChar(c) ==
  IF c \in AsciiGraphic \/ c = " " THEN c
  ELSE IF \E k \in DOMAIN DecimalZeros :
            DecimalZeros[k] <= CodePoint(c) /\ CodePoint(c) <= DecimalZeros[k] + 9
  THEN DigitSeq[CodePoint(c) + 1
                - DecimalZeros[CHOOSE k \in DOMAIN DecimalZeros :
                                 DecimalZeros[k] <= CodePoint(c)
                                   /\ CodePoint(c) <= DecimalZeros[k] + 9]]
  ELSE c

\* The text the parser reads: it ignores the case of the ASCII letters and
\* knows no other letters.
DecimalText(text) ==
  [k \in DOMAIN text |->
     IF text[k] \in LowerSet
     THEN UpperLetters[CHOOSE x \in DOMAIN LowerLetters : LowerLetters[x] = text[k]]
     ELSE DecimalChar(text[k])]

\* Decimal(text).quantize(Decimal('0.01'), rounding=ROUND_HALF_UP): the
\* constructor strips whitespace, drops underscores, reads every decimal
\* digit character as its ASCII digit and ignores the case of ASCII letters.
DecimalQuantize(text) ==
  QuantizeSigned(DecimalText(SelectSeq(strip(text), NotUnderscore)))

\* The exception classes of the except clause of normalize_amount.
CaughtByNormalize == {"ValueError", "TypeError", "AttributeError"}

\* The except clause: an exception whose class is one of its classes or
\* has one of them among its base classes gives Decimal('0.00'); any other
\* exception leaves the function.
ExceptClause(out) ==
  IF /\ out.kind = "raised"
     /\ \E k \in DOMAIN out.exc : out.exc[k] \in CaughtByNormalize
  THEN Returned(Finite(0))
  ELSE out

\* normalize_amount(value), value given by the text of str(value)
\* (float('nan') by nan, float('inf') by inf) or None, of which str gives
\* the text None.
NormalizeAmountOutcome(text) ==
  ExceptClause(DecimalQuantize(IF text = None THEN <<"N","o","n","e">> ELSE text))

\* abs(a - b) <= tolerance and the scenarios built on it, on what the two
\* calls of normalize_amount gave: an exception of either call leaves the
\* method, and an ordering comparison with a NaN signals InvalidOperation.
ScenariosOutcome(tolerance, evd, pdf) ==
  IF evd.kind = "raised" THEN evd
  ELSE IF pdf.kind = "raised" THEN pdf
  ELSE IF evd.value.kind = "NaN" \/ pdf.value.kind = "NaN"
  THEN Raised(InvalidOperation)
  ELSE Returned(ConsistentScenarios(tolerance, evd.value.mills, pdf.value.mills))

AmountsConsistentOutcome(tolerance, evd_text, pdf_text) ==
  ScenariosOutcome(tolerance, NormalizeAmountOutcome(evd_text),
                   NormalizeAmountOutcome(pdf_text))

\* calculate_difference: the two normalizations, amounts_consistent, then
\* abs(evd - pdf), the subtraction rounded to the precision of the context.
DifferenceOutcome(consistent, evd, pdf) ==
  IF consistent.kind = "raised" THEN consistent
  ELSE IF consistent.value THEN Returned(Finite(0))
  ELSE Returned(Finite(ContextRound(Abs(evd.value.mills - pdf.value.mills))))

CalculateDifferenceOutcome(tolerance, evd_text, pdf_text) ==
  DifferenceOutcome(AmountsConsistentOutcome(tolerance, evd_text, pdf_text),
                    NormalizeAmountOutcome(evd_text),
                    NormalizeAmountOutcome(pdf_text))

(***************************************************************************)
(* Exact fractions standing for Python floats                              *)
(***************************************************************************)
RECURSIVE Gcd(_, _)
Gcd(a, b) == IF b = 0 THEN a ELSE Gcd(b, a % b)

Frac(n, d) == <<n \div Gcd(n, d), d \div Gcd(n, d)>>

FracLess(x, y) == x[1] * y[2] < y[1] * x[2]

FracAdd(x, y) == Frac(x[1] * y[2] + y[1] * x[2], x[2] * y[2])

FracMul(x, k) == Frac(x[1] * k, x[2])

FracInt(k) == <<k, 1>>

FracMin(x, y) == IF FracLess(y, x) THEN y ELSE x

FracMax(x, y) == IF FracLess(x, y) THEN y ELSE x

(***************************************************************************)
(* VendorMatcher                                                           *)
(***************************************************************************)
\* The word-based Jaccard similarity of two word sets.
Jaccard(words1, words2) ==
  IF words1 = {} \/ words2 = {} THEN FracInt(0)
  ELSE IF Cardinality(words1 \cup words2) > 0
  THEN Frac(Cardinality(words1 \cap words2), Cardinality(words1 \cup words2))
  ELSE FracInt(0)

\* calculate_similarity once v1 and v2 are upper-cased and stripped.
SimilarityOfStripped(v1, v2) ==
  IF v1 = v2 THEN FracInt(1)
  ELSE IF IsSubstring(v1, v2) \/ IsSubstring(v2, v1) THEN Frac(4, 5)
  ELSE Jaccard(WordSet(v1), WordSet(v2))

\* Variant: two empty names are compared like any other two.
calculate_similarity_of_any(vendor1, vendor2) ==
  IF vendor1 = None \/ vendor2 = None
  THEN FracInt(0)
  ELSE SimilarityOfStripped(strip(upper(vendor1)), strip(upper(vendor2)))

calculate_similarity(vendor1, vendor2) ==
  IF vendor1 = None \/ vendor1 = <<>> \/ vendor2 = None \/ vendor2 = <<>>
  THEN FracInt(0)
  ELSE SimilarityOfStripped(strip(upper(vendor1)), strip(upper(vendor2)))

(***************************************************************************)
(* ConfidenceCalculator                                                    *)
(***************************************************************************)
WeightInvoiceNumber == 50
WeightAmount == 30
WeightVendor == 20
MIN_MATCH_SCORE == 50

\* score = min(100, max(0, score))
Clamp(score) == FracMin(FracInt(100), FracMax(FracInt(0), score))

\* Variant: a score equal to the threshold is not valid.
WithValidityStrict(score) == <<score, FracLess(FracInt(MIN_MATCH_SCORE), score)>>

\* Variant: the vendor contribution alone makes a score valid.
WithValidityFromVendor(score) == <<score, ~FracLess(score, FracInt(WeightVendor))>>

\* is_valid = score >= MIN_MATCH_SCORE; the pair the method returns.
WithValidity(score) == <<score, ~FracLess(score, FracInt(MIN_MATCH_SCORE))>>

\* Returns <<score, is_valid>>.
calculate_match_confidence(invoice_match, amount_consistent, vendor_similarity) ==
  WithValidity(Clamp(
    FracAdd(FracAdd(FracAdd(FracInt(0),
                            FracInt(IF invoice_match THEN WeightInvoiceNumber ELSE 0)),
                    FracInt(IF amount_consistent THEN WeightAmount ELSE 0)),
            FracMul(vendor_similarity, WeightVendor))))

(***************************************************************************)
(* Domain models (models.py)                                               *)
(***************************************************************************)
\* Invoice: the three fields the reconciliation reads.
Invoice(invoice_number, vendor_normalized, total_amount_eur) ==
  [invoice_number |-> invoice_number,
   vendor_normalized |-> vendor_normalized,
   total_amount_eur |-> total_amount_eur]

Discrepancy(type, evd_value, pdf_value, difference) ==
  [type |-> type, evd_value |-> evd_value, pdf_value |-> pdf_value,
   difference |-> difference]

InvoiceMatch(evd_invoice, pdf_invoice, confidence, discrepancies) ==
  [evd_invoice |-> evd_invoice, pdf_invoice |-> pdf_invoice,
   confidence |-> confidence, discrepancies |-> discrepancies]

\* Variant: a pair counts as perfect whatever its discrepancies.
is_perfect_match_always(match) == Len(match.discrepancies) >= 0

is_perfect_match(match) == Len(match.discrepancies) = 0

\* ReconciliationResult(): four empty lists.
ReconciliationResult ==
  [matches |-> <<>>, mismatches |-> <<>>,
   missing_in_pdf |-> <<>>, missing_in_evd |-> <<>>]

total_evd(result) ==
  Len(result.matches) + Len(result.mismatches) + Len(result.missing_in_pdf)

total_pdf(result) ==
  Len(result.matches) + Len(result.mismatches) + Len(result.missing_in_evd)

\* Variant: with no EVD invoice the rate is 100.
match_rate_vacuous(result) ==
  IF total_evd(result) = 0 THEN FracInt(100)
  ELSE Frac(Len(result.matches) * 100, total_evd(result))

\* Variant: pairs with discrepancies count as matches.
match_rate_counts_mismatches(result) ==
  IF total_evd(result) = 0 THEN FracInt(0)
  ELSE Frac((Len(result.matches) + Len(result.mismatches)) * 100, total_evd(result))

\* match_rate as an exact fraction.
match_rate(result) ==
  IF total_evd(result) = 0 THEN FracInt(0)
  ELSE Frac(Len(result.matches) * 100, total_evd(result))

(***************************************************************************)
(* ReconciliationService (service.py)                                      *)
(***************************************************************************)
get_invoice_key(invoice) ==
  <<invoice.vendor_normalized, normalize_invoice_number(invoice.invoice_number)>>

\* d.get(key, default)
DictGet(d, key, default) == IF key \in DOMAIN d THEN d[key] ELSE default

\* The loop of _group_by_vendor from position k on; the groups hold the
\* references (positions) of the invoices, in list order.
RECURSIVE GroupLoop(_, _, _)
GroupLoop(invoices, k, grouped) ==
  IF k > Len(invoices) THEN grouped
  ELSE GroupLoop(invoices, k + 1,
         [vendor \in DOMAIN grouped \cup {invoices[k].vendor_normalized} |->
            IF vendor = invoices[k].vendor_normalized
            THEN Append(DictGet(grouped, vendor, <<>>), k)
            ELSE grouped[vendor]])

\* Variant: each group lists the latest invoice first.
group_by_vendor_latest_first(invoices) ==
  [vendor \in DOMAIN GroupLoop(invoices, 1, <<>>) |->
     [n \in DOMAIN GroupLoop(invoices, 1, <<>>)[vendor] |->
        GroupLoop(invoices, 1, <<>>)[vendor][
          Len(GroupLoop(invoices, 1, <<>>)[vendor]) + 1 - n]]]

group_by_vendor(invoices) == GroupLoop(invoices, 1, <<>>)

\* Variant: two empty normalized numbers count as equal.
InvoiceNumbersEqual(evd_num, pdf_num) == evd_num = pdf_num

\* invoice_match = (evd_num == pdf_num) if evd_num and pdf_num else False
InvoiceNumbersMatch(evd_num, pdf_num) ==
  IF evd_num # <<>> /\ pdf_num # <<>> THEN evd_num = pdf_num ELSE FALSE

\* Returns <<score, is_valid>>.
calculate_match_score(tolerance, evd_invoice, pdf_invoice) ==
  calculate_match_confidence(
    InvoiceNumbersMatch(normalize_invoice_number(evd_invoice.invoice_number),
                        normalize_invoice_number(pdf_invoice.invoice_number)),
    amounts_consistent(tolerance, evd_invoice.total_amount_eur,
                       pdf_invoice.total_amount_eur),
    calculate_similarity(evd_invoice.vendor_normalized,
                         pdf_invoice.vendor_normalized))

find_discrepancies(tolerance, evd_invoice, pdf_invoice) ==
  IF ~amounts_consistent(tolerance, evd_invoice.total_amount_eur,
                         pdf_invoice.total_amount_eur)
  THEN << Discrepancy("amount", evd_invoice.total_amount_eur,
                      pdf_invoice.total_amount_eur,
                      calculate_difference(tolerance,
                                           evd_invoice.total_amount_eur,
                                           pdf_invoice.total_amount_eur)) >>
  ELSE <<>>

\* Variant: a candidate of equal score replaces the best match so far.
IsBetterOrEqual(is_valid, score, best_score) == is_valid /\ ~FracLess(score, best_score)

\* The test of the candidate loop that replaces the best match so far.
IsBetter(is_valid, score, best_score) == is_valid /\ FracLess(best_score, score)

\* The update of the best match so far, best = <<best_match, best_score>>,
\* by a candidate (reference ref) scored sv = <<score, is_valid>>.
UpdateBest(best, ref, sv) ==
  IF IsBetter(sv[2], sv[1], best[2]) THEN <<Some(ref), sv[1]>> ELSE best

\* Variant: a candidate whose key is claimed is scored like any other.
VisitCandidateNoSkip(tolerance, evd_invoice, pdfs, ref, matched_keys, best) ==
  UpdateBest(best, ref, calculate_match_score(tolerance, evd_invoice, pdfs[ref]))

\* The body of the candidate loop for the candidate at reference ref.
VisitCandidate(tolerance, evd_invoice, pdfs, ref, matched_keys, best) ==
  IF get_invoice_key(pdfs[ref]) \in matched_keys
  THEN best
  ELSE UpdateBest(best, ref, calculate_match_score(tolerance, evd_invoice, pdfs[ref]))

\* The candidate loop of _match_evd_invoice from position k on; returns
\* <<best_match, best_score>>, best_match an optional reference into pdfs.
RECURSIVE BestMatchLoop(_, _, _, _, _, _, _)
BestMatchLoop(tolerance, evd_invoice, pdfs, candidate_pdfs, k, matched_keys, best) ==
  IF k > Len(candidate_pdfs) THEN best
  ELSE BestMatchLoop(tolerance, evd_invoice, pdfs, candidate_pdfs, k + 1, matched_keys,
                     VisitCandidate(tolerance, evd_invoice, pdfs, candidate_pdfs[k],
                                    matched_keys, best))

\* Variant: the chosen record is not marked as matched.
MarkAsMatchedForgets(pdf_invoice) == {}

\* The keys to add to matched_keys once best_match is chosen.
MarkAsMatched(pdf_invoice) == {get_invoice_key(pdf_invoice)}

\* The end of _match_evd_invoice, once the loop has left
\* best = <<best_match, best_score>>.
MatchFromBest(tolerance, evds, pdfs, evd_ref, matched_keys, best) ==
  IF best[1] = Nothing
  THEN [match |-> Nothing, matched_keys |-> matched_keys]
  ELSE [match |-> Some(InvoiceMatch(evd_ref, ValueOf(best[1]), best[2],
                       find_discrepancies(tolerance, evds[evd_ref],
                                          pdfs[ValueOf(best[1])]))),
        matched_keys |-> matched_keys \cup MarkAsMatched(pdfs[ValueOf(best[1])])]

\* Variant: the candidates are looked up under the upper-cased, stripped
\* vendor name.
match_evd_invoice_any_case(tolerance, evds, pdfs, evd_ref, pdf_by_vendor, matched_keys) ==
  MatchFromBest(tolerance, evds, pdfs, evd_ref, matched_keys,
    BestMatchLoop(tolerance, evds[evd_ref], pdfs,
                  DictGet(pdf_by_vendor, strip(upper(evds[evd_ref].vendor_normalized)), <<>>),
                  1, matched_keys, <<Nothing, FracInt(0)>>))

\* _match_evd_invoice on the EVD invoice at reference evd_ref. Returns the
\* optional InvoiceMatch and the matched_keys set as the call leaves it.
match_evd_invoice(tolerance, evds, pdfs, evd_ref, pdf_by_vendor, matched_keys) ==
  MatchFromBest(tolerance, evds, pdfs, evd_ref, matched_keys,
    BestMatchLoop(tolerance, evds[evd_ref], pdfs,
                  DictGet(pdf_by_vendor, evds[evd_ref].vendor_normalized, <<>>),
                  1, matched_keys, <<Nothing, FracInt(0)>>))

\* Variant: an EVD record with no match is not recorded.
PlaceMatchDropsMissing(result, evd_ref, match_result) ==
  IF match_result = Nothing
  THEN result
  ELSE IF is_perfect_match(ValueOf(match_result))
  THEN [result EXCEPT !.matches = Append(@, ValueOf(match_result))]
  ELSE [result EXCEPT !.mismatches = Append(@, ValueOf(match_result))]

\* Variant: the outcome is put at the head of its list.
PlaceMatchAtHead(result, evd_ref, match_result) ==
  IF match_result = Nothing
  THEN [result EXCEPT !.missing_in_pdf = <<evd_ref>> \o @]
  ELSE IF is_perfect_match(ValueOf(match_result))
  THEN [result EXCEPT !.matches = <<ValueOf(match_result)>> \o @]
  ELSE [result EXCEPT !.mismatches = <<ValueOf(match_result)>> \o @]

\* The body of the loop over evd_invoices: where the outcome of
\* _match_evd_invoice is appended.
PlaceMatch(result, evd_ref, match_result) ==
  IF match_result = Nothing
  THEN [result EXCEPT !.missing_in_pdf = Append(@, evd_ref)]
  ELSE IF is_perfect_match(ValueOf(match_result))
  THEN [result EXCEPT !.matches = Append(@, ValueOf(match_result))]
  ELSE [result EXCEPT !.mismatches = Append(@, ValueOf(match_result))]

\* Variant: the loop over pdf_invoices looks the record up by its raw number.
PlaceUnmatchedRawNumber(result, pdfs, pdf_ref, matched_keys) ==
  IF <<pdfs[pdf_ref].vendor_normalized, pdfs[pdf_ref].invoice_number>> \notin matched_keys
  THEN [result EXCEPT !.missing_in_evd = Append(@, pdf_ref)]
  ELSE result

\* The body of the loop over pdf_invoices.
PlaceUnmatched(result, pdfs, pdf_ref, matched_keys) ==
  IF get_invoice_key(pdfs[pdf_ref]) \notin matched_keys
  THEN [result EXCEPT !.missing_in_evd = Append(@, pdf_ref)]
  ELSE result

\* Variant: one set object serves every call (a process-wide claimed set).
new_set_shared(h) ==
  IF h = <<>> THEN [addr |-> 1, heap |-> <<{}>>] ELSE [addr |-> 1, heap |-> h]

\* matched_pdf_keys = set(): a new set object on the heap (a sequence of
\* set values, addressed by position).
new_set(h) == [addr |-> Len(h) + 1, heap |-> Append(h, {})]

\* The locals of reconcile as it enters its first loop.
InitialFrame(a, addr) ==
  [evd_invoices |-> a.evd_invoices,
   pdf_invoices |-> a.pdf_invoices,
   result |-> ReconciliationResult,
   matched_pdf_keys |-> addr,
   pdf_by_vendor |-> IF a.pdf_by_vendor = Nothing
                     THEN group_by_vendor(a.pdf_invoices)
                     ELSE ValueOf(a.pdf_by_vendor),
   evd_pos |-> 1,
   pdf_pos |-> 1]

\* Where a call stands: in the loop over evd_invoices, in the loop over
\* pdf_invoices, or returned.
Pc(f) ==
  IF f.evd_pos <= Len(f.evd_invoices) THEN "match"
  ELSE IF f.pdf_pos <= Len(f.pdf_invoices) THEN "unmatched"
  ELSE "done"

\* The grouping without the reference ref.
WithoutCandidate(grouping, ref) ==
  [vendor \in DOMAIN grouping |->
     SelectSeq(grouping[vendor], LAMBDA r : r # ref)]

\* Variant: the chosen candidate is removed from its group in pdf_by_vendor.
AfterMatchConsumesCandidate(f, m) ==
  [frame |-> [f EXCEPT !.result = PlaceMatch(f.result, f.evd_pos, m.match),
                       !.evd_pos = f.evd_pos + 1,
                       !.pdf_by_vendor =
                          IF m.match = Nothing THEN @
                          ELSE WithoutCandidate(@, ValueOf(m.match).pdf_invoice)],
   keys |-> m.matched_keys]

\* The locals and the claimed keys after the iteration of the loop over
\* evd_invoices in which _match_evd_invoice returned m.
AfterMatch(f, m) ==
  [frame |-> [f EXCEPT !.result = PlaceMatch(f.result, f.evd_pos, m.match),
                       !.evd_pos = f.evd_pos + 1],
   keys |-> m.matched_keys]

\* One iteration of the loop over evd_invoices, on the locals f and the
\* value keys of the set matched_pdf_keys refers to.
StepMatch(tolerance, f, keys) ==
  AfterMatch(f, match_evd_invoice(tolerance, f.evd_invoices, f.pdf_invoices,
                                  f.evd_pos, f.pdf_by_vendor, keys))

\* One iteration of the loop over pdf_invoices.
StepUnmatched(f, keys) ==
  [f EXCEPT !.result = PlaceUnmatched(f.result, f.pdf_invoices, f.pdf_pos, keys),
            !.pdf_pos = f.pdf_pos + 1]

\* reconcile run from the locals f to its return, with no other call
\* running: the result it returns.
RECURSIVE RunToReturn(_, _, _)
RunFrom(tolerance, st) == RunToReturn(tolerance, st.frame, st.keys)

RunToReturn(tolerance, f, keys) ==
  IF Pc(f) = "match"
  THEN RunFrom(tolerance, StepMatch(tolerance, f, keys))
  ELSE IF Pc(f) = "unmatched"
  THEN RunToReturn(tolerance, StepUnmatched(f, keys), keys)
  ELSE f.result

reconcile(tolerance, a) == RunToReturn(tolerance, InitialFrame(a, 1), {})

(***************************************************************************)
(* EVDPDFComparator (pdf_evd_comparator.py), the comparator of the report  *)
(* workflow. Its amounts are floats: float(value), not quantized. An       *)
(* amount of the data is given by its number of thousandths n and stands   *)
(* for the double nearest to n/1000; the comparator's arithmetic on        *)
(* amounts is the arithmetic of IEEE 754 doubles, round-half-even.         *)
(***************************************************************************)
\* The alternation of the comparator's prefix regex. Its numero sign is
\* written as three other characters in lower case, which the upper-cased
\* input never holds: that alternative matches nothing.
ComparatorPrefixTokens ==
  << <<"I","N","V">>,
     <<"I","N","V","O","I","C","E">>,
     <<"D","O","C">>,
     <<"F","A","K","T","U","R","A">>,
     <<"N","O">>,
     <<"#">> >>

ComparatorFirstToken(s) ==
  ComparatorPrefixTokens[CHOOSE x \in DOMAIN ComparatorPrefixTokens :
     /\ StartsWith(s, ComparatorPrefixTokens[x])
     /\ \A y \in 1..(x - 1) : ~StartsWith(s, ComparatorPrefixTokens[y])]

ComparatorStripPrefix(s) ==
  IF \E k \in DOMAIN ComparatorPrefixTokens : StartsWith(s, ComparatorPrefixTokens[k])
  THEN StripToken(s, ComparatorFirstToken(s))
  ELSE s

\* EVDPDFComparator.normalize_invoice_number
comparator_normalize_invoice_number(invoice_num) ==
  IF invoice_num = None \/ invoice_num = <<>>
  THEN <<>>
  ELSE SelectSeq(ComparatorStripPrefix(strip(upper(invoice_num))), IsWordChar)

\* EVDPDFComparator.amounts_match
\* A natural number below 2^40 as its digits in base 2^20, most significant
\* first, no leading zero: <<>> is 0.
Limbs(n) ==
  IF n = 0 THEN <<>>
  ELSE IF n < 2^20 THEN <<n>>
  ELSE <<n \div 2^20, n % 2^20>>

RECURSIVE TrimLimbs(_)
TrimLimbs(b) == IF b # <<>> /\ Head(b) = 0 THEN TrimLimbs(Tail(b)) ELSE b

\* a + b + carry, digit by digit from the last, for a and b of one length.
RECURSIVE SumLimbs(_, _, _)
SumLimbs(a, b, carry) ==
  IF a = <<>>
  THEN (IF carry = 1 THEN <<1>> ELSE <<>>)
  ELSE Append(SumLimbs(SubSeq(a, 1, Len(a) - 1), SubSeq(b, 1, Len(b) - 1),
                       (a[Len(a)] + b[Len(b)] + carry) \div 2^20),
              (a[Len(a)] + b[Len(b)] + carry) % 2^20)

\* a + b, both first given leading zeros up to one length.
AddLimbs(a, b) ==
  TrimLimbs(SumLimbs([k \in DOMAIN b |-> 0] \o a, [k \in DOMAIN a |-> 0] \o b, 0))

\* a - b for a >= b: a plus the complement of b plus one, less the carry
\* out of the top digit.
DiffLimbs(a, b) ==
  TrimLimbs(Tail(SumLimbs(a, [k \in DOMAIN a |->
                                2^20 - 1 - (IF k <= Len(a) - Len(b) THEN 0
                                            ELSE b[k - (Len(a) - Len(b))])], 1)))

\* a <= b, for a and b without leading zeros or of one length.
LessEqLimbs(a, b) ==
  \/ Len(a) < Len(b)
  \/ /\ Len(a) = Len(b)
     /\ \/ a = b
        \/ \E k \in DOMAIN a : a[k] < b[k] /\ \A j \in 1..(k - 1) : a[j] = b[j]

\* The quotient of limbs by d (rem < d < 2^10), digit by digit, and below
\* it one more digit that is 1 when the division leaves a remainder.
RECURSIVE DivLimbs(_, _, _, _)
DivLimbs(limbs, d, rem, quotient) ==
  IF limbs = <<>>
  THEN Append(quotient, IF rem = 0 THEN 0 ELSE 1)
  ELSE DivLimbs(Tail(limbs), d, (rem * 2^20 + Head(limbs)) % d,
                Append(quotient, (rem * 2^20 + Head(limbs)) \div d))

\* The number of binary digits of b.
BitLength(b) ==
  IF b = <<>> THEN 0
  ELSE 20 * (Len(b) - 1) + (CHOOSE k \in 1..20 : 2^(k - 1) <= Head(b) /\ Head(b) < 2^k)

\* b without its lowest 20 * q + r binary digits (r < 20), rounded to the
\* nearest, ties to the even neighbour, times 2^(20 * q + r): what is cut
\* is compared with half of 2^(20 * q + r).
RoundAt(b, q, r) ==
  IF IF (b[Len(b) - q] \div 2^r) % 2 = 1
     THEN LessEqLimbs(IF r > 0 THEN <<2^(r - 1)>> \o [k \in 1..q |-> 0]
                              ELSE <<0, 2^19>> \o [k \in 1..(q - 1) |-> 0],
                      <<b[Len(b) - q] % 2^r>> \o SubSeq(b, Len(b) - q + 1, Len(b)))
     ELSE ~LessEqLimbs(<<b[Len(b) - q] % 2^r>> \o SubSeq(b, Len(b) - q + 1, Len(b)),
                       IF r > 0 THEN <<2^(r - 1)>> \o [k \in 1..q |-> 0]
                               ELSE <<0, 2^19>> \o [k \in 1..(q - 1) |-> 0])
  THEN AddLimbs(SubSeq(b, 1, Len(b) - q - 1)
                  \o <<b[Len(b) - q] - (b[Len(b) - q] % 2^r)>> \o [k \in 1..q |-> 0],
                <<2^r>> \o [k \in 1..q |-> 0])
  ELSE SubSeq(b, 1, Len(b) - q - 1)
         \o <<b[Len(b) - q] - (b[Len(b) - q] % 2^r)>> \o [k \in 1..q |-> 0]

\* b rounded to the 53 significant binary digits of a double.
RoundLimbs(b) ==
  IF BitLength(b) <= 53 THEN b
  ELSE RoundAt(b, (BitLength(b) - 53) \div 20, (BitLength(b) - 53) % 20)

\* float(value) for the number n / 1000: the double nearest to it, as its
\* sign and its multiple of 2^-100 in base 2^20 (a double of magnitude
\* 2^-11 or more is a whole multiple of 2^-64).
FloatOf(n) ==
  [neg |-> n < 0,
   limbs |-> RoundLimbs(TrimLimbs(DivLimbs(Limbs(Abs(n)) \o <<0, 0, 0, 0>>,
                                           1000, 0, <<>>)))]

\* The double x - y.
FloatSub(x, y) ==
  IF x.neg # y.neg
  THEN [neg |-> x.neg, limbs |-> RoundLimbs(AddLimbs(x.limbs, y.limbs))]
  ELSE IF LessEqLimbs(y.limbs, x.limbs)
  THEN [neg |-> x.neg /\ x.limbs # y.limbs,
        limbs |-> RoundLimbs(DiffLimbs(x.limbs, y.limbs))]
  ELSE [neg |-> ~x.neg, limbs |-> RoundLimbs(DiffLimbs(y.limbs, x.limbs))]

\* x <= y of two doubles.
FloatLessEq(x, y) ==
  IF x.neg # y.neg THEN x.neg \/ (x.limbs = <<>> /\ y.limbs = <<>>)
  ELSE IF x.neg THEN LessEqLimbs(y.limbs, x.limbs)
  ELSE LessEqLimbs(x.limbs, y.limbs)

\* abs(amount1 - amount2) <= self.amount_tolerance, on the doubles that
\* the thousandths amount1, amount2 and tolerance stand for.
comparator_amounts_match(tolerance, amount1, amount2) ==
  FloatLessEq([FloatSub(FloatOf(amount1), FloatOf(amount2)) EXCEPT !.neg = FALSE],
              FloatOf(tolerance))

\* abs(evd) and -pdf are exact on doubles: the double of -n / 1000 is the
\* negative of the double of n / 1000.
amounts_consistent_with_evd_sign_rules(tolerance, evd, pdf) ==
  IF comparator_amounts_match(tolerance, evd, pdf) THEN TRUE
  ELSE IF comparator_amounts_match(tolerance, Abs(evd), pdf) THEN TRUE
  ELSE IF comparator_amounts_match(tolerance, evd, -pdf) THEN TRUE
  ELSE FALSE

\* fuzzy_vendor_match once both names are upper-cased (they are not stripped).
FuzzyOfUpper(v1, v2) ==
  IF v1 = v2 THEN FracInt(1)
  ELSE IF IsSubstring(v1, v2) \/ IsSubstring(v2, v1) THEN Frac(4, 5)
  ELSE IF WordSet(v1) = {} \/ WordSet(v2) = {} THEN FracInt(0)
  ELSE Frac(Cardinality(WordSet(v1) \cap WordSet(v2)),
            Cardinality(WordSet(v1) \cup WordSet(v2)))

fuzzy_vendor_match(vendor1, vendor2) ==
  IF vendor1 = None \/ vendor1 = <<>> \/ vendor2 = None \/ vendor2 = <<>>
  THEN FracInt(0)
  ELSE FuzzyOfUpper(upper(vendor1), upper(vendor2))

\* The score find_matching_pdf gives one candidate.
CandidateScore(tolerance, evd_invoice, pdf) ==
  FracAdd(
    FracInt((IF /\ comparator_normalize_invoice_number(evd_invoice.invoice_number) # <<>>
                /\ comparator_normalize_invoice_number(pdf.invoice_number) # <<>>
                /\ comparator_normalize_invoice_number(evd_invoice.invoice_number)
                     = comparator_normalize_invoice_number(pdf.invoice_number)
             THEN 50 ELSE 0)
            + (IF amounts_consistent_with_evd_sign_rules(tolerance,
                    evd_invoice.total_amount_eur, pdf.total_amount_eur)
               THEN 30 ELSE 0)),
    FracMul(fuzzy_vendor_match(evd_invoice.vendor_normalized, pdf.vendor_normalized), 20))

\* if score > best_score: best_score = score; best_match = pdf
KeepBest(best, ref, score) ==
  IF FracLess(best[2], score) THEN <<Some(ref), score>> ELSE best

\* The loop of find_matching_pdf over pdf_candidates from position k on;
\* best = <<best_match, best_score>>. No candidate is skipped.
RECURSIVE FindLoop(_, _, _, _, _, _)
FindLoop(tolerance, evd_invoice, pdfs, pdf_candidates, k, best) ==
  IF k > Len(pdf_candidates) THEN best
  ELSE FindLoop(tolerance, evd_invoice, pdfs, pdf_candidates, k + 1,
         KeepBest(best, pdf_candidates[k],
                  CandidateScore(tolerance, evd_invoice, pdfs[pdf_candidates[k]])))

\* if best_score < 50: return None, 0
BelowThreshold(best) ==
  IF FracLess(best[2], FracInt(50)) THEN <<Nothing, FracInt(0)>> ELSE best

\* Returns <<match, confidence>>, match an optional reference into pdf_list.
find_matching_pdf(tolerance, evd_invoice, pdfs, pdf_candidates) ==
  BelowThreshold(FindLoop(tolerance, evd_invoice, pdfs, pdf_candidates, 1,
                          <<Nothing, FracInt(0)>>))

comparator_key(pdf) ==
  <<pdf.vendor_normalized, comparator_normalize_invoice_number(pdf.invoice_number)>>

\* The discrepancies compare_datasets lists for a matched pair: the two
\* amounts by their thousandths, their difference abs(evd_amt - pdf_amt) as
\* the double the subtraction gives.
ComparatorDiscrepancies(tolerance, evd_amt, pdf_amt) ==
  IF ~amounts_consistent_with_evd_sign_rules(tolerance, evd_amt, pdf_amt)
  THEN << [type |-> "amount", evd_value |-> evd_amt, pdf_value |-> pdf_amt,
           difference |-> [FloatSub(FloatOf(evd_amt), FloatOf(pdf_amt))
                             EXCEPT !.neg = FALSE]] >>
  ELSE <<>>

\* The results dict as compare_datasets creates it.
ComparatorResults(evd_list, pdf_list) ==
  [summary |-> [total_evd |-> Len(evd_list),
                total_pdf |-> Cardinality({comparator_key(pdf_list[n]) : n \in DOMAIN pdf_list}),
                matches |-> 0, mismatches |-> 0,
                missing_in_pdf |-> 0, missing_in_evd |-> 0],
   matches |-> <<>>, mismatches |-> <<>>,
   missing_in_pdf |-> <<>>, missing_in_evd |-> <<>>]

\* The locals of compare_datasets as it enters its first loop.
ComparatorFrame(evd_data, pdf_data) ==
  [evd_list |-> evd_data.all_invoices,
   pdf_list |-> pdf_data.all_invoices,
   by_vendor |-> pdf_data.by_vendor,
   results |-> ComparatorResults(evd_data.all_invoices, pdf_data.all_invoices),
   matched_pdf_keys |-> {},
   evd_pos |-> 1,
   pdf_pos |-> 1]

ComparatorPc(f) ==
  IF f.evd_pos <= Len(f.evd_list) THEN "match"
  ELSE IF f.pdf_pos <= Len(f.pdf_list) THEN "unmatched"
  ELSE "done"

\* The rest of an iteration of the loop over evd_list, once
\* find_matching_pdf has returned found = <<match, confidence>>.
RecordFound(tolerance, f, found) ==
  IF found[1] = Nothing
  THEN [f EXCEPT !.results.missing_in_pdf = Append(@, f.evd_pos),
                 !.results.summary.missing_in_pdf = @ + 1,
                 !.evd_pos = @ + 1]
  ELSE IF ComparatorDiscrepancies(tolerance, f.evd_list[f.evd_pos].total_amount_eur,
                                  f.pdf_list[ValueOf(found[1])].total_amount_eur) # <<>>
  THEN [f EXCEPT !.matched_pdf_keys = @ \cup {comparator_key(f.pdf_list[ValueOf(found[1])])},
                 !.results.mismatches =
                    Append(@, [evd |-> f.evd_pos, pdf |-> ValueOf(found[1]),
                               confidence |-> found[2],
                               discrepancies |->
                                 ComparatorDiscrepancies(tolerance,
                                   f.evd_list[f.evd_pos].total_amount_eur,
                                   f.pdf_list[ValueOf(found[1])].total_amount_eur)]),
                 !.results.summary.mismatches = @ + 1,
                 !.evd_pos = @ + 1]
  ELSE [f EXCEPT !.matched_pdf_keys = @ \cup {comparator_key(f.pdf_list[ValueOf(found[1])])},
                 !.results.matches =
                    Append(@, [evd |-> f.evd_pos, pdf |-> ValueOf(found[1]),
                               confidence |-> found[2], discrepancies |-> <<>>]),
                 !.results.summary.matches = @ + 1,
                 !.evd_pos = @ + 1]

\* One iteration of the loop over evd_list.
CompareStep(tolerance, f) ==
  RecordFound(tolerance, f,
    find_matching_pdf(tolerance, f.evd_list[f.evd_pos], f.pdf_list,
                      DictGet(f.by_vendor, f.evd_list[f.evd_pos].vendor_normalized, <<>>)))

\* One iteration of the loop over pdf_list.
MissingInEvdStep(f) ==
  IF comparator_key(f.pdf_list[f.pdf_pos]) \notin f.matched_pdf_keys
  THEN [f EXCEPT !.results.missing_in_evd = Append(@, f.pdf_pos),
                 !.results.summary.missing_in_evd = @ + 1,
                 !.pdf_pos = @ + 1]
  ELSE [f EXCEPT !.pdf_pos = @ + 1]

(***************************************************************************)
(* Inputs                                                                  *)
(***************************************************************************)
MaxEvd == 2
MaxPdf == 2
MaxConc == 1

\* EVDPDFComparator(amount_tolerance=0.01), in thousandths.
ComparatorTolerance == 10

DEFAULT_TOLERANCE == 10

ACME == <<"A","C","M","E">>
AcmeLower == <<"a","c","m","e">>
AcmeEad == <<"A","C","M","E"," ","E","A","D">>

EvdCatalogue ==
  { Invoice(<<"9">>, ACME, 100000),
    Invoice(<<"1">>, ACME, 100000),
    Invoice(<<"I","N","V","-","1">>, ACME, 50000),
    Invoice(<<"1">>, AcmeLower, -100000) }

PdfCatalogue ==
  { Invoice(<<"I","N","V","-","1">>, ACME, 100000),
    Invoice(<<"1">>, ACME, -100000),
    Invoice(<<"2">>, ACME, 100011),
    Invoice(<<>>, AcmeEad, 50000) }

\* Records for calls with the default grouping: vendors that are empty, blank
\* or differ by case or by a trailing space only.
AcmeSpace == <<"A","C","M","E"," ">>

VendorEvdCatalogue ==
  { Invoice(<<"1">>, <<>>, 100000),
    Invoice(<<"1">>, <<>>, 50000),
    Invoice(<<"1">>, ACME, 100000),
    Invoice(<<"1">>, ACME, 50000),
    Invoice(<<"9">>, ACME, 100000),
    Invoice(<<"1">>, AcmeLower, 100000),
    Invoice(<<"1">>, AcmeSpace, 100000),
    Invoice(<<"1">>, <<" ">>, 100000) }

VendorPdfCatalogue ==
  { Invoice(<<"I","N","V","-","1">>, <<>>, 100000),
    Invoice(<<"I","N","V","-","1">>, ACME, 100000),
    Invoice(<<"2">>, ACME, 100000),
    Invoice(<<"1">>, <<" ">>, 50000) }

SeqsUpTo(S, n) == UNION {[1..m -> S] : m \in 0..n}

\* A caller-supplied pdf_by_vendor that groups the list as _group_by_vendor
\* would: each vendor_normalized to the references of its invoices, in order.
Precomputed(pdfs) ==
  [v \in {pdfs[k].vendor_normalized : k \in DOMAIN pdfs} |->
     SelectSeq([k \in DOMAIN pdfs |-> k],
               LAMBDA k : pdfs[k].vendor_normalized = v)]

\* A caller-supplied pdf_by_vendor that offers every PDF invoice under
\* every EVD vendor (a grouping that is not by vendor_normalized).
CrossVendor(evds, pdfs) ==
  [v \in {evds[k].vendor_normalized : k \in DOMAIN evds} |->
     [k \in DOMAIN pdfs |-> k]]

Args(evds, pdfs, pdf_by_vendor) ==
  [evd_invoices |-> evds, pdf_invoices |-> pdfs, pdf_by_vendor |-> pdf_by_vendor]

\* The calls of the interleaved specification: default grouping only.
ConcEvdCatalogue ==
  { Invoice(<<"9">>, ACME, 100000),
    Invoice(<<"1">>, ACME, 100000) }

ConcPdfCatalogue ==
  { Invoice(<<"I","N","V","-","1">>, ACME, 100000),
    Invoice(<<"1">>, ACME, -100000) }

ConcArgSet ==
  { Args(evds, pdfs, Nothing) :
      <<evds, pdfs>> \in SeqsUpTo(ConcEvdCatalogue, MaxConc) \X SeqsUpTo(ConcPdfCatalogue, MaxConc) }

\* The amounts (in thousandths) and tolerances the amount rules are tried on.
MaxMills == 25

Amounts ==
  (-MaxMills..MaxMills) \cup {50000, 50010, 50011, 50015, -50000, 100000, -100000}

Tolerances == {0, 5, DEFAULT_TOLERANCE, 20}

\* Values passed as amounts, each by the text str(value) gives: numbers,
\* a word, the empty string, None, float('nan') and float('inf'), and
\* texts with digits, letters and whitespace from outside ASCII, a zero
\* with the exponent 10^18 and a number that rounds up to 29 digits.
AmountTexts ==
  { <<"a","b","c">>, <<>>, None, <<"n","a","n">>, <<"i","n","f">>,
    <<"1","2",".","3","4","5">>, <<"-","0",".","0","0","5">>,
    <<"1","0","0">>, <<"-","1","0","0">>, <<"1","e","1">>,
    <<"U+00A0","U+0661","U+0662","\f">>, <<"U+0131","n","f">>, <<"1","U+2003","2">>,
    <<"0","e","1","0","0","0","0","0","0","0","0","0","0","0","0","0","0","0","0","0","0">>,
    <<"9","9","9","9","9","9","9","9","9","9","9","9","9","9","9","9","9","9","9","9","9","9","9","9","9","9",".","9","9","5">> }

\* The vendor similarities the confidence rule is tried on: the fractions
\* n/d of [0, 1] with d up to MaxDen, and 0.49.
MaxDen == 5

Similarities ==
  {Frac(n, d) : <<n, d>> \in {<<x, y>> \in (0..MaxDen) \X (1..MaxDen) : x <= y}}
    \cup {Frac(49, 100)}

\* The invoices whose pairs are scored.
ScoredInvoices ==
  EvdCatalogue \cup PdfCatalogue \cup
    { Invoice(<<"A","B","C">>, ACME, 100000),
      Invoice(<<"a","b","c">>, ACME, 50000),
      Invoice(<<" ","-">>, ACME, 100000),
      Invoice(<<"U+00A0","-","\f">>, ACME, 100000),
      Invoice(<<"U+0444","-","1">>, ACME, 50000),
      Invoice(<<"I","N","V">>, ACME, 100000),
      Invoice(<<"d","o","c",":">>, ACME, 100000),
      Invoice(<<"N","o",".">>, ACME, 50000),
      Invoice(<<"F","A","K","T","U","R","A"," ","-">>, ACME, 100000),
      Invoice(<<"I","N","V","O","I","C","E">>, ACME, 100000) }

\* Raw invoice numbers: every prefix token (NO also with its dot), followed
\* by a separator and a digit string; and numbers of other shapes, some
\* with letters, digits and whitespace from outside ASCII.
NumberPrefixes == Range(PrefixTokens) \cup { <<"N","o",".">>, <<"i","n","v">> }

NumberSeparators ==
  { <<>>, <<"-">>, <<":">>, <<" ","-"," ">>, <<":"," ">>, <<" ">> }

DigitStrings == { <<"1">>, <<"1","2","3","4","5">>, <<"0","0","7">> }

PrefixedNumbers ==
  { [invoice_num |-> p \o s \o d, prefixed |-> TRUE, digits |-> d] :
      <<p, s, d>> \in NumberPrefixes \X NumberSeparators \X DigitStrings }

OtherNumbers ==
  { [invoice_num |-> t, prefixed |-> FALSE, digits |-> <<>>] :
      t \in { None, <<>>, <<" ">>, <<"#","_","1">>, <<"a","_","1">>,
              <<"a","b","-","c">>, <<"x",".","y","/","z"," ","9">>,
              <<"1","2","3">>, <<"(","I","N","V","-","1",")">>,
              <<"I","N","V","-","I","N","V","-","1">>,
              <<"\f","I","N","V","-","1">>, <<"I","N","V","U+00A0","-","U+2003","1">>,
              <<"U+0424","-","1">>, <<"U+0444","-","U+0663">>,
              <<"s","t","r","a","U+00DF","e"," ","5">>, <<"U+2003">>,
              <<"U+2116"," ","U+00E4","1">> } }

\* The vendor names calculate_similarity is tried on.
VendorTexts ==
  { None, <<>>, <<" ">>, ACME, AcmeLower, AcmeEad,
    <<"A","C","M","E"," ","L","T","D">>, <<"A","C","M","E"," ","G","M","B","H">>,
    <<"E","A","D"," ","A","C","M","E">>, <<"a"," ","b">>, <<"b"," "," ","a">>,
    <<"U+044F","U+00DF">>, <<"U+042F","S","S">>, <<"A","\f","B">>, <<"B","U+00A0","A","U+2003">> }

ArgSet(maxEvd, maxPdf) ==
  UNION { { Args(evds, pdfs, Nothing),
            Args(evds, pdfs, Some(Precomputed(pdfs))),
            Args(evds, pdfs, Some(CrossVendor(evds, pdfs))) } :
          <<evds, pdfs>> \in SeqsUpTo(EvdCatalogue, maxEvd) \X SeqsUpTo(PdfCatalogue, maxPdf) }

(***************************************************************************)
(* State                                                                   *)
(***************************************************************************)
VARIABLES
  self,     \* the ReconciliationService instance: its amount tolerance
  calls,    \* the arguments of the calls the callers make, by call number
  frames,   \* the locals of each call started so far, by call number
  heap,     \* the set objects allocated so far
  probe,    \* the arguments of a call of one business rule
  answer    \* what that call returned

vars == <<self, calls, frames, heap, probe, answer>>

Started(k) == k \in DOMAIN frames

Done(k) == Started(k) /\ Pc(frames[k]) = "done"

\* reconcile, up to the first loop: the result, the claimed-key set and
\* the grouping.
Begin(k) ==
  /\ k \in DOMAIN calls
  /\ ~Started(k)
  /\ \E s \in {new_set(heap)} :
       /\ heap' = s.heap
       /\ frames' = frames @@ (k :> InitialFrame(calls[k], s.addr))
  /\ UNCHANGED <<self, calls, probe, answer>>

\* A caller that makes its calls one after the other.
BeginNext ==
  \E k \in DOMAIN calls :
    /\ k = 1 \/ Done(k - 1)
    /\ Begin(k)

\* Callers that do not wait for each other.
BeginAny == \E k \in DOMAIN calls : Begin(k)

\* One iteration of the loop over evd_invoices, in call k.
MatchEvdOf(k) ==
  /\ Started(k)
  /\ Pc(frames[k]) = "match"
  /\ \E st \in {StepMatch(self.tolerance, frames[k],
                            heap[frames[k].matched_pdf_keys])} :
       /\ heap' = [heap EXCEPT ![frames[k].matched_pdf_keys] = st.keys]
       /\ frames' = [frames EXCEPT ![k] = st.frame]
  /\ UNCHANGED <<self, calls, probe, answer>>

\* One iteration of the loop over pdf_invoices, in call k.
FindUnmatchedOf(k) ==
  /\ Started(k)
  /\ Pc(frames[k]) = "unmatched"
  /\ frames' = [frames EXCEPT ![k] =
                  StepUnmatched(frames[k], heap[frames[k].matched_pdf_keys])]
  /\ UNCHANGED <<self, calls, heap, probe, answer>>

MatchEvd == \E k \in DOMAIN calls : MatchEvdOf(k)

FindUnmatched == \E k \in DOMAIN calls : FindUnmatchedOf(k)

\* A call of AmountValidator.amounts_consistent.
CallAmountsConsistent ==
  /\ probe # Nothing
  /\ answer = Nothing
  /\ answer' = Some([fn |-> "amounts_consistent",
                     value |-> amounts_consistent(probe[1].tolerance,
                                                  probe[1].evd_amt, probe[1].pdf_amt)])
  /\ UNCHANGED <<self, calls, frames, heap, probe>>

\* A call of AmountValidator.calculate_difference.
CallCalculateDifference ==
  /\ probe # Nothing
  /\ answer = Nothing
  /\ answer' = Some([fn |-> "calculate_difference",
                     value |-> calculate_difference(probe[1].tolerance,
                                                    probe[1].evd_amt, probe[1].pdf_amt)])
  /\ UNCHANGED <<self, calls, frames, heap, probe>>

\* A call of AmountValidator.normalize_amount on any value.
CallNormalizeAmount ==
  /\ probe # Nothing
  /\ answer = Nothing
  /\ answer' = Some([fn |-> "normalize_amount",
                     outcome |-> NormalizeAmountOutcome(probe[1].evd_amt)])
  /\ UNCHANGED <<self, calls, frames, heap, probe>>

\* A call of amounts_consistent on any two values.
CallAmountsConsistentAny ==
  /\ probe # Nothing
  /\ answer = Nothing
  /\ answer' = Some([fn |-> "amounts_consistent",
                     outcome |-> AmountsConsistentOutcome(probe[1].tolerance,
                                   probe[1].evd_amt, probe[1].pdf_amt)])
  /\ UNCHANGED <<self, calls, frames, heap, probe>>

\* A call of calculate_difference on any two values.
CallCalculateDifferenceAny ==
  /\ probe # Nothing
  /\ answer = Nothing
  /\ answer' = Some([fn |-> "calculate_difference",
                     outcome |-> CalculateDifferenceOutcome(probe[1].tolerance,
                                   probe[1].evd_amt, probe[1].pdf_amt)])
  /\ UNCHANGED <<self, calls, frames, heap, probe>>

\* A call of ConfidenceCalculator.calculate_match_confidence.
CallCalculateMatchConfidence ==
  /\ probe # Nothing
  /\ answer = Nothing
  /\ answer' = Some([fn |-> "calculate_match_confidence",
                     value |-> calculate_match_confidence(probe[1].invoice_match,
                                 probe[1].amount_consistent, probe[1].vendor_similarity)])
  /\ UNCHANGED <<self, calls, frames, heap, probe>>

\* A call of ReconciliationService._calculate_match_score.
CallCalculateMatchScore ==
  /\ probe # Nothing
  /\ answer = Nothing
  /\ answer' = Some([fn |-> "_calculate_match_score",
                     value |-> calculate_match_score(self.tolerance,
                                 probe[1].evd_invoice, probe[1].pdf_invoice)])
  /\ UNCHANGED <<self, calls, frames, heap, probe>>

\* A call of InvoiceNormalizer.normalize_invoice_number.
CallNormalizeInvoiceNumber ==
  /\ probe # Nothing
  /\ answer = Nothing
  /\ answer' = Some([fn |-> "normalize_invoice_number",
                     value |-> normalize_invoice_number(probe[1].invoice_num)])
  /\ UNCHANGED <<self, calls, frames, heap, probe>>

\* A call of VendorMatcher.calculate_similarity.
CallCalculateSimilarity ==
  /\ probe # Nothing
  /\ answer = Nothing
  /\ answer' = Some([fn |-> "calculate_similarity",
                     value |-> calculate_similarity(probe[1].vendor1, probe[1].vendor2)])
  /\ UNCHANGED <<self, calls, frames, heap, probe>>

\* compare_datasets, up to its first loop.
CompareBegin ==
  \E k \in DOMAIN calls :
    /\ ~Started(k)
    /\ frames' = frames @@ (k :> ComparatorFrame(calls[k].evd_data, calls[k].pdf_data))
    /\ UNCHANGED <<self, calls, heap, probe, answer>>

\* One iteration of compare_datasets' loop over evd_list.
CompareEvd ==
  \E k \in DOMAIN frames :
    /\ ComparatorPc(frames[k]) = "match"
    /\ frames' = [frames EXCEPT ![k] = CompareStep(self.amount_tolerance, frames[k])]
    /\ UNCHANGED <<self, calls, heap, probe, answer>>

\* One iteration of compare_datasets' loop over pdf_list.
CompareMissing ==
  \E k \in DOMAIN frames :
    /\ ComparatorPc(frames[k]) = "unmatched"
    /\ frames' = [frames EXCEPT ![k] = MissingInEvdStep(frames[k])]
    /\ UNCHANGED <<self, calls, heap, probe, answer>>

Service == [tolerance |-> DEFAULT_TOLERANCE]

\* One service instance; the same call made twice, one after the other.
Init ==
  /\ self = Service
  /\ calls \in {<<a, a>> : a \in ArgSet(MaxEvd, MaxPdf)}
  /\ frames = <<>>
  /\ heap = <<>>
  /\ probe = Nothing
  /\ answer = Nothing

Next ==
  \/ BeginNext
  \/ MatchEvd
  \/ FindUnmatched

Spec == Init /\ [][Next]_vars

\* One service instance; two calls whose steps interleave freely.
InitConc ==
  /\ self = Service
  /\ calls \in {<<a, b>> : <<a, b>> \in ConcArgSet \X ConcArgSet}
  /\ frames = <<>>
  /\ heap = <<>>
  /\ probe = Nothing
  /\ answer = Nothing

NextConc ==
  \/ BeginAny
  \/ MatchEvd
  \/ FindUnmatched

SpecConc == InitConc /\ [][NextConc]_vars

\* The amount rules of an AmountValidator, called on two amounts.
InitAmount ==
  /\ self = Service
  /\ calls = <<>>
  /\ frames = <<>>
  /\ heap = <<>>
  /\ probe \in {Some([tolerance |-> t, evd_amt |-> a, pdf_amt |-> b]) :
                  <<t, a, b>> \in Tolerances \X Amounts \X Amounts}
  /\ answer = Nothing

NextAmount ==
  \/ CallAmountsConsistent
  \/ CallCalculateDifference

SpecAmount == InitAmount /\ [][NextAmount]_vars

\* The amount rules called on values of any kind.
InitQuantize ==
  /\ self = Service
  /\ calls = <<>>
  /\ frames = <<>>
  /\ heap = <<>>
  /\ probe \in {Some([tolerance |-> self.tolerance, evd_amt |-> a, pdf_amt |-> b]) :
                  <<a, b>> \in AmountTexts \X AmountTexts}
  /\ answer = Nothing

NextQuantize ==
  \/ CallNormalizeAmount
  \/ CallAmountsConsistentAny
  \/ CallCalculateDifferenceAny

SpecQuantize == InitQuantize /\ [][NextQuantize]_vars

\* The confidence rule called on three criteria, and the score of a pair of
\* invoices.
InitConfidence ==
  /\ self = Service
  /\ calls = <<>>
  /\ frames = <<>>
  /\ heap = <<>>
  /\ probe \in {Some([invoice_match |-> i, amount_consistent |-> a,
                      vendor_similarity |-> v, evd_invoice |-> e, pdf_invoice |-> p]) :
                  <<i, a, v, e, p>> \in
                    BOOLEAN \X BOOLEAN \X Similarities \X ScoredInvoices \X ScoredInvoices}
  /\ answer = Nothing

NextConfidence ==
  \/ CallCalculateMatchConfidence
  \/ CallCalculateMatchScore

SpecConfidence == InitConfidence /\ [][NextConfidence]_vars

\* The invoice-number normalizer called on a raw number.
InitNormalize ==
  /\ self = Service
  /\ calls = <<>>
  /\ frames = <<>>
  /\ heap = <<>>
  /\ probe \in {Some(n) : n \in PrefixedNumbers \cup OtherNumbers}
  /\ answer = Nothing

NextNormalize == CallNormalizeInvoiceNumber

SpecNormalize == InitNormalize /\ [][NextNormalize]_vars

\* The vendor matcher called on two names.
InitVendor ==
  /\ self = Service
  /\ calls = <<>>
  /\ frames = <<>>
  /\ heap = <<>>
  /\ probe \in {Some([vendor1 |-> a, vendor2 |-> b]) :
                  <<a, b>> \in VendorTexts \X VendorTexts}
  /\ answer = Nothing

NextVendor == CallCalculateSimilarity

SpecVendor == InitVendor /\ [][NextVendor]_vars

\* The comparator as the report workflow creates it.
Comparator == [amount_tolerance |-> ComparatorTolerance]

\* The two JSON documents the report workflow loads: every list of EVD and
\* PDF records from the catalogues and a PDF record whose amount is 0.01
\* from that of the EVD record of its number, the PDF records grouped by
\* vendor.
ComparatorArgs(evds, pdfs) ==
  [evd_data |-> [all_invoices |-> evds],
   pdf_data |-> [all_invoices |-> pdfs, by_vendor |-> Precomputed(pdfs)]]

InitComparator ==
  /\ self = Comparator
  /\ calls \in {<<ComparatorArgs(e, p)>> :
                  <<e, p>> \in SeqsUpTo(EvdCatalogue, MaxEvd)
                                 \X SeqsUpTo(PdfCatalogue \cup {Invoice(<<"9">>, ACME, 100010)},
                                             MaxPdf)}
  /\ frames = <<>>
  /\ heap = <<>>
  /\ probe = Nothing
  /\ answer = Nothing

NextComparator ==
  \/ CompareBegin
  \/ CompareEvd
  \/ CompareMissing

SpecComparator == InitComparator /\ [][NextComparator]_vars

\* One service instance; one call with the default grouping, its records
\* from the vendor catalogues.
InitByVendor ==
  /\ self = Service
  /\ calls \in {<<Args(e, p, Nothing)>> :
                  <<e, p>> \in SeqsUpTo(VendorEvdCatalogue, MaxEvd)
                                 \X SeqsUpTo(VendorPdfCatalogue, MaxPdf)}
  /\ frames = <<>>
  /\ heap = <<>>
  /\ probe = Nothing
  /\ answer = Nothing

SpecByVendor == InitByVendor /\ [][Next]_vars

(***************************************************************************)
(* Properties                                                              *)
(***************************************************************************)
\* The pairs a call has emitted so far.
Pairs(f) == f.result.matches \o f.result.mismatches

\* The key of the external record of pair m of the call with locals f.
PairKey(f, m) == get_invoice_key(f.pdf_invoices[m.pdf_invoice])

\* The score and validity of EVD record i against PDF record j of a call.
ScoreOf(f, i, j) ==
  calculate_match_score(self.tolerance, f.evd_invoices[i], f.pdf_invoices[j])

\* How often value x occurs in sequence q.
Count(q, x) == Cardinality({n \in DOMAIN q : q[n] = x})

DefaultGrouping(k) == calls[k].pdf_by_vendor = Nothing

\* C1. No double-claim: at every point of every call, no two pairs emitted
\* so far have external records with the same key, and no external record
\* is in two pairs.
NoDoubleClaim ==
  \A k \in DOMAIN frames :
    \A x, y \in DOMAIN Pairs(frames[k]) :
      x # y =>
        /\ PairKey(frames[k], Pairs(frames[k])[x]) # PairKey(frames[k], Pairs(frames[k])[y])
        /\ Pairs(frames[k])[x].pdf_invoice # Pairs(frames[k])[y].pdf_invoice

\* A call has returned with one pair and one unmatched EVD record that
\* scores a valid match against the external record of that pair.
NoDoubleClaimWitness ==
  \E k \in DOMAIN frames :
    /\ Done(k)
    /\ Len(Pairs(frames[k])) = 1
    /\ Len(frames[k].result.missing_in_pdf) = 1
    /\ ScoreOf(frames[k], frames[k].result.missing_in_pdf[1],
               Pairs(frames[k])[1].pdf_invoice)[2]

\* C2. External-side conservation: when a call with the default grouping
\* has returned, every external record is the external side of exactly one
\* pair or is in missing_in_evd, and exactly one of the two, so that
\* total_pdf equals len(pdf_invoices).
ExternalConservation ==
  \A k \in DOMAIN frames :
    (Done(k) /\ DefaultGrouping(k)) =>
      /\ total_pdf(frames[k].result) = Len(frames[k].pdf_invoices)
      /\ \A j \in DOMAIN frames[k].pdf_invoices :
           Cardinality({x \in DOMAIN Pairs(frames[k]) :
                          Pairs(frames[k])[x].pdf_invoice = j})
             + Count(frames[k].result.missing_in_evd, j) = 1

\* C3. Authoritative-side conservation: at every point of every call, each
\* EVD record processed so far is in exactly one of matches, mismatches and
\* missing_in_pdf, and no other is; a returned call has total_evd equal to
\* len(evd_invoices).
AuthoritativeConservation ==
  \A k \in DOMAIN frames :
    /\ \A i \in DOMAIN frames[k].evd_invoices :
         Cardinality({x \in DOMAIN Pairs(frames[k]) :
                        Pairs(frames[k])[x].evd_invoice = i})
           + Count(frames[k].result.missing_in_pdf, i)
           = IF i < frames[k].evd_pos THEN 1 ELSE 0
    /\ total_evd(frames[k].result) = frames[k].evd_pos - 1
    /\ Done(k) => total_evd(frames[k].result) = Len(frames[k].evd_invoices)

\* A call has returned with two EVD records, one paired and one missing.
AuthoritativeConservationWitness ==
  \E k \in DOMAIN frames :
    /\ Done(k)
    /\ Len(frames[k].evd_invoices) = 2
    /\ Len(Pairs(frames[k])) = 1
    /\ Len(frames[k].result.missing_in_pdf) = 1

\* The claimed keys of call k: the value of the set its matched_pdf_keys
\* refers to.
ClaimedKeys(k) == heap[frames[k].matched_pdf_keys]

IsPrefix(p, q) == Len(p) <= Len(q) /\ SubSeq(q, 1, Len(p)) = p

\* A step keeps every claim made so far: the claimed keys stay claimed, the
\* pairs emitted stay as they are, and a pair the step adds is with an
\* external record whose key was not claimed before the step.
StepKeepsClaims ==
  \A k \in DOMAIN frames :
    /\ k \in DOMAIN frames'
    /\ ClaimedKeys(k) \subseteq ClaimedKeys(k)'
    /\ IsPrefix(frames[k].result.matches, frames'[k].result.matches)
    /\ IsPrefix(frames[k].result.mismatches, frames'[k].result.mismatches)
    /\ \A m \in Range(Pairs(frames'[k])) \ Range(Pairs(frames[k])) :
         PairKey(frames[k], m) \notin ClaimedKeys(k)

\* A1 before A2 in one vendor group with a single external E1 that both
\* validly match.
OrderScenario(k) ==
  /\ Len(frames[k].evd_invoices) = 2
  /\ Len(frames[k].pdf_invoices) = 1
  /\ DefaultGrouping(k)
  /\ frames[k].evd_invoices[1].vendor_normalized = frames[k].pdf_invoices[1].vendor_normalized
  /\ frames[k].evd_invoices[2].vendor_normalized = frames[k].pdf_invoices[1].vendor_normalized
  /\ ScoreOf(frames[k], 1, 1)[2]
  /\ ScoreOf(frames[k], 2, 1)[2]

\* In the scenario A1 is paired with E1 and A2 ends in missing_in_pdf.
FirstComeFirstServed ==
  \A k \in DOMAIN frames :
    (Done(k) /\ OrderScenario(k)) =>
      /\ Len(Pairs(frames[k])) = 1
      /\ Pairs(frames[k])[1].evd_invoice = 1
      /\ Pairs(frames[k])[1].pdf_invoice = 1
      /\ frames[k].result.missing_in_pdf = <<2>>

\* C4. Claims are permanent and first-come-first-served: no step of any
\* call releases a claimed key or pairs a later EVD record with an external
\* record whose key is claimed; with A1 before A2 and a single E1 both can
\* validly match, A1 gets E1 and A2 is missing, whatever their scores.
ClaimsPermanent == [][StepKeepsClaims]_vars /\ []FirstComeFirstServed

\* The scenario has run to its end with A2 scoring strictly higher against
\* E1 than A1 does.
ClaimsPermanentWitness ==
  \E k \in DOMAIN frames :
    /\ Done(k)
    /\ OrderScenario(k)
    /\ FracLess(ScoreOf(frames[k], 1, 1)[1], ScoreOf(frames[k], 2, 1)[1])
    /\ frames[k].result.missing_in_pdf = <<2>>

\* The candidates of EVD record i of a call with locals f, given the
\* claimed keys: positions in its vendor group whose record is unclaimed
\* and scores a valid match.
Group(f, i) == DictGet(f.pdf_by_vendor, f.evd_invoices[i].vendor_normalized, <<>>)

Eligible(f, i, keys) ==
  {c \in DOMAIN Group(f, i) :
     /\ get_invoice_key(f.pdf_invoices[Group(f, i)[c]]) \notin keys
     /\ ScoreOf(f, i, Group(f, i)[c])[2]}

\* Position c holds the highest score among the eligible ones and is the
\* earliest position that does.
IsGreedyChoice(f, i, keys, c) ==
  /\ c \in Eligible(f, i, keys)
  /\ \A d \in Eligible(f, i, keys) :
       /\ ~FracLess(ScoreOf(f, i, Group(f, i)[c])[1], ScoreOf(f, i, Group(f, i)[d])[1])
       /\ ScoreOf(f, i, Group(f, i)[d])[1] = ScoreOf(f, i, Group(f, i)[c])[1] => c <= d

\* What the iteration for EVD record i of call k must do.
GreedyOutcome(k, i) ==
  IF Eligible(frames[k], i, ClaimedKeys(k)) = {}
  THEN /\ frames'[k].result.missing_in_pdf = Append(frames[k].result.missing_in_pdf, i)
       /\ Pairs(frames'[k]) = Pairs(frames[k])
       /\ ClaimedKeys(k)' = ClaimedKeys(k)
  ELSE \E c \in DOMAIN Group(frames[k], i) :
         /\ IsGreedyChoice(frames[k], i, ClaimedKeys(k), c)
         /\ frames'[k].result.missing_in_pdf = frames[k].result.missing_in_pdf
         /\ Range(Pairs(frames'[k])) \ Range(Pairs(frames[k])) =
              {[evd_invoice |-> i,
                pdf_invoice |-> Group(frames[k], i)[c],
                confidence |-> ScoreOf(frames[k], i, Group(frames[k], i)[c])[1],
                discrepancies |-> find_discrepancies(self.tolerance,
                                    frames[k].evd_invoices[i],
                                    frames[k].pdf_invoices[Group(frames[k], i)[c]])]}
         /\ ClaimedKeys(k)' = ClaimedKeys(k) \cup
              {get_invoice_key(frames[k].pdf_invoices[Group(frames[k], i)[c]])}

\* C5. Greedy selection rule: the iteration for an EVD record pairs it with
\* the candidate of its vendor group that is unclaimed, valid and of the
\* highest score, the earliest such candidate on a tie, and claims its key;
\* with no unclaimed valid candidate the record goes to missing_in_pdf and
\* the claimed set is unchanged. Records are taken in input order.
GreedySelection ==
  [][\A k \in DOMAIN frames :
       frames'[k].evd_pos # frames[k].evd_pos =>
         /\ frames'[k].evd_pos = frames[k].evd_pos + 1
         /\ GreedyOutcome(k, frames[k].evd_pos)]_vars

\* A call has paired its EVD record with the first of two candidates that
\* are both unclaimed and valid with the same score.
GreedySelectionWitness ==
  \E k \in DOMAIN frames :
    /\ Done(k)
    /\ Len(frames[k].evd_invoices) = 1
    /\ Group(frames[k], 1) = <<1, 2>>
    /\ ScoreOf(frames[k], 1, 1)[2]
    /\ ScoreOf(frames[k], 1, 1) = ScoreOf(frames[k], 1, 2)
    /\ Len(Pairs(frames[k])) = 1
    /\ Pairs(frames[k])[1].pdf_invoice = 1

\* C6. Idempotence: the second of two calls with the same ordered inputs on
\* the same service instance returns what the first returned.
Idempotence ==
  (Done(1) /\ Done(2) /\ calls[1] = calls[2]) =>
    frames[2].result = frames[1].result

\* Both calls have returned and the second has emitted a pair.
IdempotenceWitness ==
  /\ Done(1)
  /\ Done(2)
  /\ calls[1] = calls[2]
  /\ Len(Pairs(frames[2])) >= 1

\* C7. Independence of interleaved calls: each call returns what it returns
\* when it runs alone, the two calls hold different claimed-key sets, and
\* the set of a call holds the keys that call claimed and nothing else.
IndependentCalls ==
  \A k \in DOMAIN frames :
    /\ Done(k) => frames[k].result = reconcile(self.tolerance, calls[k])
    /\ \A j \in DOMAIN frames :
         j # k => frames[j].matched_pdf_keys # frames[k].matched_pdf_keys
    /\ ClaimedKeys(k) = {PairKey(frames[k], m) : m \in Range(Pairs(frames[k]))}

\* Both calls are between their two loops at the same time, each with a
\* pair, and the two pairs are with external records of the same key.
IndependentCallsWitness ==
  /\ Started(1)
  /\ Started(2)
  /\ Pc(frames[1]) = "unmatched"
  /\ Pc(frames[2]) = "unmatched"
  /\ frames[1].pdf_pos = 1
  /\ frames[2].pdf_pos = 1
  /\ Len(Pairs(frames[1])) = 1
  /\ Len(Pairs(frames[2])) = 1
  /\ PairKey(frames[1], Pairs(frames[1])[1]) = PairKey(frames[2], Pairs(frames[2])[1])

\* Quantization to 2 decimals, round-half-up, stated on its own: the whole
\* number of hundredths nearest to v, the one further from zero on a tie.
RoundHalfUp(v) ==
  CHOOSE q \in {10 * n : n \in ((v \div 10) - 1)..((v \div 10) + 1)} :
    \/ Abs(q - v) < 5
    \/ Abs(q - v) = 5 /\ Abs(q) > Abs(v)

\* The three rules on the quantized amounts, the bound inclusive.
WithinTolerance(t, a, b) ==
  \/ Abs(RoundHalfUp(a) - RoundHalfUp(b)) <= t
  \/ Abs(RoundHalfUp(a) + RoundHalfUp(b)) <= t
  \/ Abs(Abs(RoundHalfUp(a)) - Abs(RoundHalfUp(b))) <= t

Asked(fn) == answer # Nothing /\ answer[1].fn = fn

ProbeIs(t, a, b) == probe = Some([tolerance |-> t, evd_amt |-> a, pdf_amt |-> b])

SameSign(a, b) == (a >= 0 /\ b >= 0) \/ (a <= 0 /\ b <= 0)

\* C8 as stated: with tolerance 0.01, amounts_consistent(50.00, 50.011) is
\* false.
ExactDifferenceDecides ==
  (Asked("amounts_consistent") /\ ProbeIs(10, 50000, 50011)) =>
    answer[1].value = FALSE

\* C8, amended: with tolerance 0.01, amounts_consistent(50.00, 50.011) is
\* true, since 50.011 is quantized to 50.01 before it is compared; two
\* amounts of the same sign are inconsistent exactly when the difference of
\* their quantized values exceeds the tolerance (50.00 against 50.015).
ToleranceBoundary ==
  Asked("amounts_consistent") =>
    /\ ProbeIs(10, 50000, 50011) => answer[1].value = TRUE
    /\ ProbeIs(10, 50000, 50015) => answer[1].value = FALSE
    /\ SameSign(probe[1].evd_amt, probe[1].pdf_amt) =>
         (answer[1].value = FALSE <=>
            Abs(RoundHalfUp(probe[1].evd_amt) - RoundHalfUp(probe[1].pdf_amt))
              > probe[1].tolerance)

\* amounts_consistent(50.00, 50.011) has returned, with tolerance 0.01.
ToleranceBoundaryWitness ==
  Asked("amounts_consistent") /\ ProbeIs(10, 50000, 50011)

\* C9. amounts_consistent(a, b) is true exactly when one of the three rules
\* holds of the quantized amounts, the bound being inclusive; so it holds
\* of x and -x, and of 50.00 and 50.01 at tolerance 0.01.
ConsistencyDefinition ==
  Asked("amounts_consistent") =>
    /\ answer[1].value =
         WithinTolerance(probe[1].tolerance, probe[1].evd_amt, probe[1].pdf_amt)
    /\ probe[1].pdf_amt = -probe[1].evd_amt => answer[1].value = TRUE
    /\ ProbeIs(10, 50000, 50010) => answer[1].value = TRUE

\* amounts_consistent(100.00, -100.00) has returned true at tolerance 0.01.
ConsistencyDefinitionWitness ==
  /\ Asked("amounts_consistent")
  /\ ProbeIs(10, 100000, -100000)
  /\ answer[1].value = TRUE

\* C10. calculate_difference(a, b) is 0.00 when a and b are consistent
\* under any of the three rules and otherwise |q(a) - q(b)|, not adjusted
\* for sign: 100.00 against -50.00 gives 150.00.
DifferenceDefinition ==
  Asked("calculate_difference") =>
    /\ answer[1].value =
         IF WithinTolerance(probe[1].tolerance, probe[1].evd_amt, probe[1].pdf_amt)
         THEN 0
         ELSE Abs(RoundHalfUp(probe[1].evd_amt) - RoundHalfUp(probe[1].pdf_amt))
    /\ ProbeIs(10, 100000, -50000) => answer[1].value = 150000

\* calculate_difference(100.00, -50.00) has returned 150.00.
DifferenceDefinitionWitness ==
  /\ Asked("calculate_difference")
  /\ ProbeIs(10, 100000, -50000)
  /\ answer[1].value = 150000

\* The amount texts that are no parseable finite number.
InvalidAmountTexts ==
  { <<"a","b","c">>, <<>>, None, <<"n","a","n">>, <<"i","n","f">> }

\* C11. normalize_amount returns 0.00 for every value that is no parseable
\* finite number, and no call of normalize_amount, amounts_consistent or
\* calculate_difference raises an exception.
FailSoftQuantize ==
  answer # Nothing =>
    /\ answer[1].outcome.kind = "returned"
    /\ (answer[1].fn = "normalize_amount" /\ probe[1].evd_amt \in InvalidAmountTexts)
         => answer[1].outcome = Returned(Finite(0))

\* (50 if inv) + (30 if amt) + 20 * n/d, times d.
RawScoreTimes(d, inv, amt, n) ==
  (IF inv THEN 50 * d ELSE 0) + (IF amt THEN 30 * d ELSE 0) + 20 * n

ClampTo(lo, hi, x) == IF x < lo THEN lo ELSE IF x > hi THEN hi ELSE x

\* The score s/t is the clamp to [0, 100] of the raw score for n/d.
IsClampedScore(score, inv, amt, sim) ==
  score[1] * sim[2] =
    score[2] * ClampTo(0, 100 * sim[2], RawScoreTimes(sim[2], inv, amt, sim[1]))

\* Both normalized invoice numbers are non-empty and they are equal.
SameNumber(evd_invoice, pdf_invoice) ==
  /\ normalize_invoice_number(evd_invoice.invoice_number) # <<>>
  /\ normalize_invoice_number(pdf_invoice.invoice_number) # <<>>
  /\ normalize_invoice_number(evd_invoice.invoice_number)
       = normalize_invoice_number(pdf_invoice.invoice_number)

\* C12. calculate_match_confidence(inv, amt, sim) returns the clamp to
\* [0, 100] of (50 if inv) + (30 if amt) + 20 * sim, with is_valid exactly
\* when the score is at least 50; the score of a pair of invoices takes inv
\* to be true only when both normalized numbers are non-empty and equal.
\* An invoice-number match alone gives (50, valid); amount consistency with
\* similarity 0.49 gives (39.8, invalid).
ConfidenceScore ==
  /\ Asked("calculate_match_confidence") =>
       /\ IsClampedScore(answer[1].value[1], probe[1].invoice_match,
                         probe[1].amount_consistent, probe[1].vendor_similarity)
       /\ answer[1].value[2] <=> (answer[1].value[1][1] >= 50 * answer[1].value[1][2])
       /\ answer[1].value[1][1] >= 0
       /\ answer[1].value[1][1] <= 100 * answer[1].value[1][2]
       /\ (probe[1].invoice_match /\ ~probe[1].amount_consistent
             /\ probe[1].vendor_similarity = <<0, 1>>)
            => answer[1].value = <<(<<50, 1>>), TRUE>>
       /\ (~probe[1].invoice_match /\ probe[1].amount_consistent
             /\ probe[1].vendor_similarity = <<49, 100>>)
            => answer[1].value = <<(<<199, 5>>), FALSE>>
  /\ Asked("_calculate_match_score") =>
       /\ IsClampedScore(answer[1].value[1],
            SameNumber(probe[1].evd_invoice, probe[1].pdf_invoice),
            WithinTolerance(self.tolerance, probe[1].evd_invoice.total_amount_eur,
                            probe[1].pdf_invoice.total_amount_eur),
            calculate_similarity(probe[1].evd_invoice.vendor_normalized,
                                 probe[1].pdf_invoice.vendor_normalized))
       /\ answer[1].value[2] <=> (answer[1].value[1][1] >= 50 * answer[1].value[1][2])

\* calculate_match_confidence(True, False, 0.0) has returned (50, True).
ConfidenceScoreWitness ==
  /\ Asked("calculate_match_confidence")
  /\ probe[1].invoice_match
  /\ ~probe[1].amount_consistent
  /\ probe[1].vendor_similarity = <<0, 1>>
  /\ answer[1].value = <<(<<50, 1>>), TRUE>>

\* The number holds no digit (it is empty or non-numeric).
NoDigit(number) == \A k \in DOMAIN number : number[k] \notin Digits

\* The number holds no letter, digit or underscore.
NoWordChar(number) == \A k \in DOMAIN number : ~IsWordChar(number[k])

\* The score of the probed pair has no invoice-number contribution.
ScoredWithoutNumber ==
  IsClampedScore(answer[1].value[1], FALSE,
    WithinTolerance(self.tolerance, probe[1].evd_invoice.total_amount_eur,
                    probe[1].pdf_invoice.total_amount_eur),
    calculate_similarity(probe[1].evd_invoice.vendor_normalized,
                         probe[1].pdf_invoice.vendor_normalized))

\* C13 as stated: an invoice number with no digit normalizes to the empty
\* string, and a pair in which either number has no digit never receives
\* the 50 points of invoice-number equality.
NonNumericFailsClosed ==
  Asked("_calculate_match_score") =>
    /\ NoDigit(probe[1].evd_invoice.invoice_number)
         => normalize_invoice_number(probe[1].evd_invoice.invoice_number) = <<>>
    /\ (NoDigit(probe[1].evd_invoice.invoice_number)
          \/ NoDigit(probe[1].pdf_invoice.invoice_number))
         => ScoredWithoutNumber

\* The prefix tokens that the prefix regex removes whole: every alternative
\* but INVOICE, of which the regex takes INV and leaves OICE.
WholeTokens ==
  { <<"I","N","V">>, <<"D","O","C">>, <<"F","A","K","T","U","R","A">>,
    <<NumeroSign>>, <<"N","O">>, <<"#">> }

\* The upper-cased and trimmed number s is at most one prefix token
\* followed by characters that are no letter, digit or underscore.
TokenOnly(s) ==
  \E tok \in WholeTokens \cup {<<>>} :
    StartsWith(s, tok) /\ NoWordChar(Drop(s, Len(tok)))

\* The invoice numbers that fail closed: None, the empty one, and those
\* that hold nothing but at most one prefix token and separators.
FailsClosed(number) ==
  number = None \/ number = <<>> \/ TokenOnly(strip(upper(number)))

\* C13, amended: the invoice numbers that normalize to the empty string
\* are exactly the empty one and those that, upper-cased and trimmed, are
\* at most one prefix token (INV, DOC, FAKTURA, the numero sign, NO, #)
\* followed only by characters that are no letter, digit or underscore; a
\* pair in which either number is such never receives the 50 points; every
\* other number, with or without digits, keeps a non-empty normalized form
\* ("ABC" keeps "ABC"), and a pair of two such numbers whose normalized
\* forms are equal does receive the 50 points.
BlankFailsClosed ==
  Asked("_calculate_match_score") =>
    /\ FailsClosed(probe[1].evd_invoice.invoice_number)
         <=> normalize_invoice_number(probe[1].evd_invoice.invoice_number) = <<>>
    /\ FailsClosed(probe[1].pdf_invoice.invoice_number)
         <=> normalize_invoice_number(probe[1].pdf_invoice.invoice_number) = <<>>
    /\ (FailsClosed(probe[1].evd_invoice.invoice_number)
          \/ FailsClosed(probe[1].pdf_invoice.invoice_number))
         => ScoredWithoutNumber
    /\ (/\ ~FailsClosed(probe[1].evd_invoice.invoice_number)
        /\ ~FailsClosed(probe[1].pdf_invoice.invoice_number)
        /\ normalize_invoice_number(probe[1].evd_invoice.invoice_number)
             = normalize_invoice_number(probe[1].pdf_invoice.invoice_number))
         => ~ScoredWithoutNumber

\* A record whose invoice number is only a prefix token and a record whose
\* invoice number is only separators have been scored.
BlankFailsClosedWitness ==
  /\ Asked("_calculate_match_score")
  /\ probe[1].evd_invoice.invoice_number = <<"N","o",".">>
  /\ probe[1].pdf_invoice.invoice_number = <<" ","-">>
  /\ ScoredWithoutNumber

\* The discrepancy list the rule gives for amounts a and b: one amount
\* discrepancy with the raw difference when they are inconsistent.
ExpectedDiscrepancies(t, a, b) ==
  IF WithinTolerance(t, a, b)
  THEN <<>>
  ELSE << [type |-> "amount", evd_value |-> a, pdf_value |-> b,
           difference |-> Abs(RoundHalfUp(a) - RoundHalfUp(b))] >>

\* Pair m of the call with locals f has a present external record and the
\* discrepancy list its two amounts call for.
WellFormedPair(f, m) ==
  /\ m.pdf_invoice \in DOMAIN f.pdf_invoices
  /\ m.evd_invoice \in DOMAIN f.evd_invoices
  /\ m.discrepancies =
       ExpectedDiscrepancies(self.tolerance,
                             f.evd_invoices[m.evd_invoice].total_amount_eur,
                             f.pdf_invoices[m.pdf_invoice].total_amount_eur)

\* C14. Match/mismatch split: every pair emitted has a present external
\* record; it carries exactly one amount discrepancy, of magnitude
\* calculate_difference, when the two total amounts are inconsistent and
\* none otherwise; it is in mismatches when its discrepancy list is
\* non-empty and in matches when it is empty.
MatchMismatchSplit ==
  \A k \in DOMAIN frames :
    /\ \A x \in DOMAIN frames[k].result.matches :
         /\ WellFormedPair(frames[k], frames[k].result.matches[x])
         /\ frames[k].result.matches[x].discrepancies = <<>>
    /\ \A x \in DOMAIN frames[k].result.mismatches :
         /\ WellFormedPair(frames[k], frames[k].result.mismatches[x])
         /\ Len(frames[k].result.mismatches[x].discrepancies) = 1

\* A call has returned with a pair in matches and a pair in mismatches.
MatchMismatchSplitWitness ==
  \E k \in DOMAIN frames :
    /\ Done(k)
    /\ Len(frames[k].result.matches) >= 1
    /\ Len(frames[k].result.mismatches) >= 1

\* C15. Empty input is a valid outcome: a call with no EVD invoice returns
\* with matches, mismatches and missing_in_pdf empty, every record of
\* pdf_invoices in missing_in_evd, once and in order, and match_rate 0; so
\* reconcile([], []) returns four empty lists.
EmptyInput ==
  \A k \in DOMAIN frames :
    (Done(k) /\ calls[k].evd_invoices = <<>>) =>
      /\ frames[k].result.matches = <<>>
      /\ frames[k].result.mismatches = <<>>
      /\ frames[k].result.missing_in_pdf = <<>>
      /\ frames[k].result.missing_in_evd = [n \in DOMAIN calls[k].pdf_invoices |-> n]
      /\ match_rate(frames[k].result) = <<0, 1>>

\* A call with no EVD invoice and two PDF invoices that are equal (and so
\* share a key) has returned.
EmptyInputWitness ==
  \E k \in DOMAIN frames :
    /\ Done(k)
    /\ calls[k].evd_invoices = <<>>
    /\ Len(calls[k].pdf_invoices) = 2
    /\ calls[k].pdf_invoices[1] = calls[k].pdf_invoices[2]

\* C16. match_rate of a returned call is 100 * len(matches) / len(A) when
\* A is not empty and 0 when it is; it lies in [0, 100].
MatchRate ==
  \A k \in DOMAIN frames :
    Done(k) =>
      /\ match_rate(frames[k].result)[2] > 0
      /\ match_rate(frames[k].result)[1] * Len(calls[k].evd_invoices)
           = match_rate(frames[k].result)[2] * 100 * Len(frames[k].result.matches)
      /\ calls[k].evd_invoices = <<>> => match_rate(frames[k].result)[1] = 0
      /\ match_rate(frames[k].result)[1] >= 0
      /\ match_rate(frames[k].result)[1] <= 100 * match_rate(frames[k].result)[2]

\* A call with two EVD invoices has returned with one match and one
\* mismatch: its match_rate is 50.
MatchRateWitness ==
  \E k \in DOMAIN frames :
    /\ Done(k)
    /\ Len(calls[k].evd_invoices) = 2
    /\ Len(frames[k].result.matches) = 1
    /\ Len(frames[k].result.mismatches) = 1
    /\ match_rate(frames[k].result) = <<50, 1>>

\* C17. A caller-supplied grouping that maps each vendor_normalized to the
\* records of pdf_invoices with that value, in list order, gives the
\* outcome reconcile gives when it computes the grouping itself.
PrecomputedGrouping ==
  \A k \in DOMAIN frames :
    (Done(k) /\ calls[k].pdf_by_vendor = Some(Precomputed(calls[k].pdf_invoices))) =>
      frames[k].result =
        reconcile(self.tolerance,
                  Args(calls[k].evd_invoices, calls[k].pdf_invoices, Nothing))

\* A call given the grouping of its two PDF invoices by vendor has returned
\* with a pair.
PrecomputedGroupingWitness ==
  \E k \in DOMAIN frames :
    /\ Done(k)
    /\ calls[k].pdf_by_vendor = Some(Precomputed(calls[k].pdf_invoices))
    /\ Len(calls[k].pdf_invoices) = 2
    /\ Len(Pairs(frames[k])) >= 1

\* The arguments a call holds are the caller's objects, as they were given.
ArgumentsIntact(k) ==
  /\ frames[k].evd_invoices = calls[k].evd_invoices
  /\ frames[k].pdf_invoices = calls[k].pdf_invoices
  /\ calls[k].pdf_by_vendor # Nothing =>
       frames[k].pdf_by_vendor = ValueOf(calls[k].pdf_by_vendor)

\* A step writes no set object but the claimed set of the call that steps.
WritesOwnSetOnly ==
  \A a \in DOMAIN heap :
    heap'[a] # heap[a] =>
      \E k \in DOMAIN frames :
        frames[k].matched_pdf_keys = a /\ frames'[k] # frames[k]

\* C18. No side effects: at every step of reconcile the two input lists,
\* their records and a caller-supplied pdf_by_vendor are as the caller gave
\* them, the service is unchanged, and the only objects written are the
\* call's result and its own claimed set.
NoSideEffects ==
  /\ [](\A k \in DOMAIN frames : ArgumentsIntact(k))
  /\ [][calls' = calls /\ self' = self /\ WritesOwnSetOnly]_vars

\* A call given a grouping by its caller has returned with a pair.
NoSideEffectsWitness ==
  \E k \in DOMAIN frames :
    /\ Done(k)
    /\ calls[k].pdf_by_vendor # Nothing
    /\ Len(frames[k].result.matches) + Len(frames[k].result.mismatches) >= 1
    /\ heap[frames[k].matched_pdf_keys] # {}

\* C19. The result of normalize_invoice_number holds only upper-case
\* letters and digits, and is the empty string for null or blank input.
OnlyAlphanumerics ==
  Asked("normalize_invoice_number") =>
    /\ \A k \in DOMAIN answer[1].value :
         answer[1].value[k] \in UpperSet \cup Digits
    /\ (probe[1].invoice_num = None \/ strip(probe[1].invoice_num) = <<>>)
         => answer[1].value = <<>>

\* C20. Prefix stripping: a prefix token of the list, an optional separator
\* and a digit string d normalize to d.
PrefixStripped ==
  (Asked("normalize_invoice_number") /\ probe[1].prefixed) =>
    answer[1].value = probe[1].digits

\* |W1 \cap W2| / |W1 \cup W2|, 0 when there is no word at all.
WordOverlap(w1, w2) ==
  IF w1 \cup w2 = {} THEN <<0, 1>>
  ELSE Frac(Cardinality(w1 \cap w2), Cardinality(w1 \cup w2))

\* The similarity the rule gives for two non-empty names, case ignored.
SimilarityRule(v1, v2) ==
  IF v1 = v2 THEN <<1, 1>>
  ELSE IF IsSubstring(v1, v2) \/ IsSubstring(v2, v1) THEN <<4, 5>>
  ELSE WordOverlap(WordSet(v1), WordSet(v2))

\* C21. calculate_similarity(v1, v2) is 0.0 when either name is empty, 1.0
\* when they are equal ignoring case, else 0.8 when one contains the other,
\* else the Jaccard index of their word sets; it lies in [0, 1].
\* ("ACME EAD", "ACME") gives 0.8 and ("ACME LTD", "ACME GMBH") gives 1/3.
VendorSimilarity ==
  Asked("calculate_similarity") =>
    /\ answer[1].value =
         IF probe[1].vendor1 \in {None, <<>>} \/ probe[1].vendor2 \in {None, <<>>}
         THEN <<0, 1>>
         ELSE SimilarityRule(upper(probe[1].vendor1), upper(probe[1].vendor2))
    /\ answer[1].value[1] >= 0
    /\ answer[1].value[1] <= answer[1].value[2]

\* The pairs compare_datasets has emitted so far.
ComparatorPairs(f) == f.results.matches \o f.results.mismatches

\* C22: EVDPDFComparator.compare_datasets never double-claims: no PDF record
\* and no PDF key is the pdf of more than one entry of matches and
\* mismatches together.
ComparatorNoDoubleClaim ==
  \A k \in DOMAIN frames :
    \A m, n \in DOMAIN ComparatorPairs(frames[k]) :
      m # n =>
        /\ ComparatorPairs(frames[k])[m].pdf # ComparatorPairs(frames[k])[n].pdf
        /\ comparator_key(frames[k].pdf_list[ComparatorPairs(frames[k])[m].pdf])
             # comparator_key(frames[k].pdf_list[ComparatorPairs(frames[k])[n].pdf])

\* The external records of a call have pairwise-distinct keys.
DistinctKeys(f) ==
  \A i, j \in DOMAIN f.pdf_invoices :
    i # j => get_invoice_key(f.pdf_invoices[i]) # get_invoice_key(f.pdf_invoices[j])

\* How many pairs of a call have external record j.
PairsWith(f, j) == Cardinality({x \in DOMAIN Pairs(f) : Pairs(f)[x].pdf_invoice = j})

\* C23: when a call with the default grouping, whose external records have
\* pairwise-distinct keys, has returned, every external record is the
\* external side of exactly one pair or is once in missing_in_evd, never
\* both and never neither, and it is in missing_in_evd if and only if its
\* key is not in the final claimed set.
DistinctKeysConservation ==
  \A k \in DOMAIN frames :
    (Done(k) /\ DefaultGrouping(k) /\ DistinctKeys(frames[k])) =>
      \A j \in DOMAIN frames[k].pdf_invoices :
        /\ PairsWith(frames[k], j) + Count(frames[k].result.missing_in_evd, j) = 1
        /\ Count(frames[k].result.missing_in_evd, j) = 1
             <=> get_invoice_key(frames[k].pdf_invoices[j]) \notin ClaimedKeys(k)

\* A call with the default grouping and two external records of distinct
\* keys has returned, one of them paired and the other missing.
DistinctKeysConservationWitness ==
  \E k \in DOMAIN frames :
    /\ Done(k)
    /\ DefaultGrouping(k)
    /\ DistinctKeys(frames[k])
    /\ Len(frames[k].pdf_invoices) = 2
    /\ Len(Pairs(frames[k])) = 1
    /\ Len(frames[k].result.missing_in_evd) = 1

\* The keys of the external records in the candidate groups of a call.
GroupKeys(f) ==
  UNION {{get_invoice_key(f.pdf_invoices[f.pdf_by_vendor[v][c]]) :
            c \in DOMAIN f.pdf_by_vendor[v]} : v \in DOMAIN f.pdf_by_vendor}

\* The claimed set of every call holds keys of grouped external records
\* only, one for each pair emitted so far.
ClaimedSetShape ==
  \A k \in DOMAIN frames :
    /\ ClaimedKeys(k) \subseteq GroupKeys(frames[k])
    /\ Cardinality(ClaimedKeys(k)) = Len(Pairs(frames[k]))
    /\ ClaimedKeys(k) = {PairKey(frames[k], Pairs(frames[k])[x]) : x \in DOMAIN Pairs(frames[k])}

\* A step leaves the claimed set of every call as it is and emits no pair,
\* or it emits one pair and adds one key, new to the set: the key of that
\* pair's external record.
ClaimedSetStep ==
  \A k \in DOMAIN frames :
    \/ /\ ClaimedKeys(k)' = ClaimedKeys(k)
       /\ Pairs(frames'[k]) = Pairs(frames[k])
    \/ /\ Len(Pairs(frames'[k])) = Len(Pairs(frames[k])) + 1
       /\ Pc(frames[k]) = "match"
       /\ \E m \in Range(Pairs(frames'[k])) :
            /\ m.evd_invoice = frames[k].evd_pos
            /\ PairKey(frames[k], m) \notin ClaimedKeys(k)
            /\ ClaimedKeys(k)' = ClaimedKeys(k) \cup {PairKey(frames[k], m)}

\* C24: claimed-set invariant: at every point of every call the claimed set
\* only grows, each of its keys is the key of an external record of a
\* candidate group, and it has as many keys as pairs were emitted; an
\* iteration for an EVD record adds exactly one new key when it emits a pair
\* and none otherwise.
ClaimedSetInvariant == [][ClaimedSetStep]_vars /\ []ClaimedSetShape

\* A call has left its first EVD record unpaired and emitted a pair for
\* its second, so that its claimed set holds one key.
ClaimedSetInvariantWitness ==
  \E k \in DOMAIN frames :
    /\ frames[k].result.missing_in_pdf = <<1>>
    /\ Len(Pairs(frames[k])) = 1
    /\ Pairs(frames[k])[1].evd_invoice = 2
    /\ Cardinality(ClaimedKeys(k)) = 1

\* The two records of pair m of the call with locals f differ in normalized
\* invoice number and their amounts are inconsistent.
DifferInBoth(f, m) ==
  /\ normalize_invoice_number(f.evd_invoices[m.evd_invoice].invoice_number)
       # normalize_invoice_number(f.pdf_invoices[m.pdf_invoice].invoice_number)
  /\ ~WithinTolerance(self.tolerance, f.evd_invoices[m.evd_invoice].total_amount_eur,
                      f.pdf_invoices[m.pdf_invoice].total_amount_eur)

\* C25: every pair in mismatches has equal, non-empty normalized invoice
\* numbers on both sides, and no pair at all is of two records that differ
\* in both invoice number and amount.
MismatchesShareNumber ==
  \A k \in DOMAIN frames :
    /\ \A x \in DOMAIN frames[k].result.mismatches :
         SameNumber(frames[k].evd_invoices[frames[k].result.mismatches[x].evd_invoice],
                    frames[k].pdf_invoices[frames[k].result.mismatches[x].pdf_invoice])
    /\ \A x \in DOMAIN Pairs(frames[k]) : ~DifferInBoth(frames[k], Pairs(frames[k])[x])

\* A call has returned with a pair in mismatches and an unpaired EVD record
\* that differs in number and amount from an external record of its vendor
\* which stayed unpaired too.
MismatchesShareNumberWitness ==
  \E k \in DOMAIN frames :
    /\ Done(k)
    /\ Len(frames[k].result.mismatches) = 1
    /\ \E i \in Range(frames[k].result.missing_in_pdf) :
         \E j \in Range(frames[k].result.missing_in_evd) :
           /\ frames[k].evd_invoices[i].vendor_normalized
                = frames[k].pdf_invoices[j].vendor_normalized
           /\ DifferInBoth(frames[k], [evd_invoice |-> i, pdf_invoice |-> j])

\* The vendor name is None or the empty string.
EmptyVendor(vendor) == vendor = None \/ vendor = <<>>

\* The confidence the claim gives pair m of the call with locals f: 50 for
\* equal non-empty numbers, 30 for consistent amounts, and 20 when the
\* vendor of the EVD record is not empty.
ConfidenceByVendor(f, m) ==
  (IF SameNumber(f.evd_invoices[m.evd_invoice], f.pdf_invoices[m.pdf_invoice])
   THEN 50 ELSE 0)
  + (IF WithinTolerance(self.tolerance, f.evd_invoices[m.evd_invoice].total_amount_eur,
                        f.pdf_invoices[m.pdf_invoice].total_amount_eur)
     THEN 30 ELSE 0)
  + (IF EmptyVendor(f.evd_invoices[m.evd_invoice].vendor_normalized) THEN 0 ELSE 20)

\* C26: with the default grouping every pair has a confidence of 50, 70, 80
\* or 100: the vendor contributes 20 when the shared vendor_normalized is
\* not empty and 0 when it is; pairs in matches have 50, 80 or 100 and pairs
\* in mismatches 50 or 70.
ConfidenceValues ==
  \A k \in DOMAIN frames :
    DefaultGrouping(k) =>
      /\ \A x \in DOMAIN Pairs(frames[k]) :
           /\ Pairs(frames[k])[x].confidence =
                FracInt(ConfidenceByVendor(frames[k], Pairs(frames[k])[x]))
           /\ Pairs(frames[k])[x].confidence \in
                {FracInt(50), FracInt(70), FracInt(80), FracInt(100)}
      /\ \A x \in DOMAIN frames[k].result.matches :
           frames[k].result.matches[x].confidence \in {FracInt(50), FracInt(80), FracInt(100)}
      /\ \A x \in DOMAIN frames[k].result.mismatches :
           frames[k].result.mismatches[x].confidence \in {FracInt(50), FracInt(70)}

\* A call has returned with a pair of empty vendor in matches at confidence
\* 80 and a pair of a vendor in mismatches at confidence 70.
ConfidenceValuesWitness ==
  \E k \in DOMAIN frames :
    /\ Done(k)
    /\ DefaultGrouping(k)
    /\ Len(frames[k].result.matches) = 1
    /\ Len(frames[k].result.mismatches) = 1
    /\ frames[k].result.matches[1].confidence = FracInt(80)
    /\ frames[k].evd_invoices[frames[k].result.matches[1].evd_invoice].vendor_normalized = <<>>
    /\ frames[k].result.mismatches[1].confidence = FracInt(70)

\* No external record of the call has the vendor_normalized of EVD record i.
VendorUnknown(f, i) ==
  \A j \in DOMAIN f.pdf_invoices :
    f.pdf_invoices[j].vendor_normalized # f.evd_invoices[i].vendor_normalized

\* C27: with the default grouping the two records of every pair have the
\* same vendor_normalized string, and when the call has returned, every EVD
\* record whose vendor_normalized is that of no external record is in
\* missing_in_pdf.
SameVendorPairs ==
  \A k \in DOMAIN frames :
    DefaultGrouping(k) =>
      /\ \A x \in DOMAIN Pairs(frames[k]) :
           frames[k].evd_invoices[Pairs(frames[k])[x].evd_invoice].vendor_normalized
             = frames[k].pdf_invoices[Pairs(frames[k])[x].pdf_invoice].vendor_normalized
      /\ Done(k) =>
           \A i \in DOMAIN frames[k].evd_invoices :
             VendorUnknown(frames[k], i) => Count(frames[k].result.missing_in_pdf, i) = 1

\* A call has returned with an EVD record in missing_in_pdf whose vendor is
\* that of no external record, while an external record whose vendor
\* differs from it by case or surrounding whitespace only scores a valid
\* match with it and stayed unpaired.
SameVendorPairsWitness ==
  \E k \in DOMAIN frames :
    /\ Done(k)
    /\ DefaultGrouping(k)
    /\ \E i \in Range(frames[k].result.missing_in_pdf) :
         /\ VendorUnknown(frames[k], i)
         /\ \E j \in Range(frames[k].result.missing_in_evd) :
              /\ strip(upper(frames[k].pdf_invoices[j].vendor_normalized))
                   = strip(upper(frames[k].evd_invoices[i].vendor_normalized))
              /\ ScoreOf(frames[k], i, j)[2]

\* The references in q are in list order, each at most once.
Increasing(q) == \A a, b \in DOMAIN q : a < b => q[a] < q[b]

EvdSides(q) == [x \in DOMAIN q |-> q[x].evd_invoice]

\* The four lists of every call are in input order.
OutputOrdered ==
  \A k \in DOMAIN frames :
    /\ Increasing(EvdSides(frames[k].result.matches))
    /\ Increasing(EvdSides(frames[k].result.mismatches))
    /\ Increasing(frames[k].result.missing_in_pdf)
    /\ Increasing(frames[k].result.missing_in_evd)

\* The EVD references a call has placed so far, in its three lists.
Placed(f) ==
  Range(EvdSides(f.result.matches)) \cup Range(EvdSides(f.result.mismatches))
    \cup Range(f.result.missing_in_pdf)

\* A step of a call in its first loop processes the EVD record at evd_pos,
\* the next in input order, and no other.
ProcessedInOrder ==
  \A k \in DOMAIN frames :
    /\ Placed(frames[k]) = 1..(frames[k].evd_pos - 1)
    /\ frames'[k] # frames[k] /\ Pc(frames[k]) = "match" =>
         /\ frames'[k].evd_pos = frames[k].evd_pos + 1
         /\ Placed(frames'[k]) = Placed(frames[k]) \cup {frames[k].evd_pos}
    /\ Pc(frames[k]) # "match" => Placed(frames'[k]) = Placed(frames[k])

\* C28: output ordering: the EVD records are processed once each, in input
\* order, so that the EVD sides of matches and of mismatches and the records
\* of missing_in_pdf are in the order of evd_invoices, and missing_in_evd is
\* in the order of pdf_invoices.
OutputOrdering == [][ProcessedInOrder]_vars /\ []OutputOrdered

\* A call has returned with two pairs in matches, the first with the second
\* external record and the second with the first.
OutputOrderingWitness ==
  \E k \in DOMAIN frames :
    /\ Done(k)
    /\ Len(frames[k].result.matches) = 2
    /\ frames[k].result.matches[1].pdf_invoice = 2
    /\ frames[k].result.matches[2].pdf_invoice = 1

\* | |q(a)| - |q(b)| | <= t
MagnitudesWithin(t, a, b) == Abs(Abs(RoundHalfUp(a)) - Abs(RoundHalfUp(b))) <= t

\* C29: for a non-negative tolerance amounts_consistent(a, b) is true exactly
\* when the magnitudes of the quantized amounts differ by at most the
\* tolerance, and amounts_consistent and calculate_difference give the same
\* for (a, b) and for (b, a).
MagnitudeRule ==
  /\ (Asked("amounts_consistent") /\ probe[1].tolerance >= 0) =>
       /\ answer[1].value <=>
            MagnitudesWithin(probe[1].tolerance, probe[1].evd_amt, probe[1].pdf_amt)
       /\ answer[1].value =
            amounts_consistent(probe[1].tolerance, probe[1].pdf_amt, probe[1].evd_amt)
  /\ (Asked("calculate_difference") /\ probe[1].tolerance >= 0) =>
       answer[1].value =
         calculate_difference(probe[1].tolerance, probe[1].pdf_amt, probe[1].evd_amt)

\* amounts_consistent has returned true for a negative and a positive amount
\* whose quantized values are neither equal nor opposite.
MagnitudeRuleWitness ==
  /\ Asked("amounts_consistent")
  /\ answer[1].value
  /\ probe[1].evd_amt < 0
  /\ probe[1].pdf_amt > 0
  /\ RoundHalfUp(probe[1].evd_amt) # -RoundHalfUp(probe[1].pdf_amt)
  /\ probe[1].tolerance > 0

\* C30: normalize_invoice_number is idempotent: the number it returns is
\* returned as it is when normalized again.
NormalizeIdempotent ==
  Asked("normalize_invoice_number") =>
    normalize_invoice_number(answer[1].value) = answer[1].value

=============================================================================
